---------------------------- MODULE Spec2Model ----------------------------
(***************************************************************************)
(* Model of the CI scripts under .github/scripts:                          *)
(*   analyze-performance.py     (PerformanceAnalyzer and its CLI)          *)
(*   requirement-compliance.py  (ComplianceAnalyzer and its CLI)           *)
(*   generate-dashboard.py      (DashboardGenerator and its CLI)           *)
(*                                                                         *)
(* Python values are represented as follows.                               *)
(*   str      a TLA+ string; slicing is SubSeq, len is Len, + is \o.       *)
(*   float    the exact rational <<numerator, denominator>> in lowest      *)
(*            terms, denominator > 0: 80.0 is <<80, 1>>, 0.5 is <<1, 2>>.  *)
(*            Rounding errors of the binary representation are not         *)
(*            modelled.                                                    *)
(*   dict     a record; list: a sequence.                                  *)
(*            The dictionary the dashboard builds of the categories is the *)
(*            sequence of its items [key |-> k, value |-> v], in order of  *)
(*            insertion.                                                   *)
(*   a call   [raised |-> FALSE, value |-> v] when it returns v and        *)
(*            [raised |-> TRUE, exception |-> e] when it raises e, for    *)
(*            the functions that can raise.                                *)
(***************************************************************************)
EXTENDS Integers, Sequences, FiniteSets, TLC

Return(v) == [raised |-> FALSE, value |-> v]
Raise(e) == [raised |-> TRUE, exception |-> e]

(***************************************************************************)
(* str operations                                                          *)
(***************************************************************************)
UpperChars == "ABCDEFGHIJKLMNOPQRSTUVWXYZ"
LowerChars == "abcdefghijklmnopqrstuvwxyz"
DigitChars == "0123456789"

CharAt(s, i) == SubSeq(s, i, i)

IndexIn(c, alphabet) ==
    IF \E i \in 1..Len(alphabet) : CharAt(alphabet, i) = c
    THEN CHOOSE i \in 1..Len(alphabet) : CharAt(alphabet, i) = c
    ELSE 0

\* the lower-case letter of each upper-case letter
UpperToLower ==
    [c \in {CharAt(UpperChars, i) : i \in 1..Len(UpperChars)} |->
        CharAt(LowerChars, IndexIn(c, UpperChars))]

lowerChar(c) == IF c \in DOMAIN UpperToLower THEN UpperToLower[c] ELSE c

\* str.lower()
RECURSIVE lower(_)
lower(s) == IF s = "" THEN "" ELSE lowerChar(CharAt(s, 1)) \o lower(Tail(s))

\* text[i:].startswith(lit), i counted from 1
StartsAt(text, i, lit) ==
    /\ i >= 1
    /\ i + Len(lit) - 1 <= Len(text)
    /\ SubSeq(text, i, i + Len(lit) - 1) = lit

\* the Python test `sub in text`
contains(sub, text) == \E i \in 1..(Len(text) + 1) : StartsAt(text, i, sub)

\* the value of each digit
DigitValue ==
    [c \in {CharAt(DigitChars, i) : i \in 1..Len(DigitChars)} |-> IndexIn(c, DigitChars) - 1]

IsDigit(c) == c \in DOMAIN DigitValue

\* str(n) for an int n >= 0
RECURSIVE NatToStr(_)
NatToStr(n) ==
    IF n < 10 THEN CharAt(DigitChars, n + 1)
    ELSE NatToStr(n \div 10) \o CharAt(DigitChars, (n % 10) + 1)

\* int(s) for a string of digits
RECURSIVE StrToNat(_)
StrToNat(s) ==
    IF s = "" THEN 0
    ELSE 10 * StrToNat(SubSeq(s, 1, Len(s) - 1)) + DigitValue[CharAt(s, Len(s))]

\* s.replace(',', '')
RECURSIVE StripCommas(_)
StripCommas(s) ==
    IF s = "" THEN ""
    ELSE (IF CharAt(s, 1) = "," THEN "" ELSE CharAt(s, 1)) \o StripCommas(Tail(s))

(***************************************************************************)
(* float arithmetic: exact rationals <<n, d>>, d > 0, in lowest terms      *)
(***************************************************************************)
Abs(x) == IF x < 0 THEN -x ELSE x

RECURSIVE Gcd(_, _)
Gcd(a, b) == IF b = 0 THEN a ELSE Gcd(b, a % b)

Rat(n, d) ==
    LET g == Gcd(Abs(n), d) IN <<n \div g, d \div g>>

RatOfInt(x) == <<x, 1>>
RatLE(a, b) == a[1] * b[2] <= b[1] * a[2]
RatGE(a, b) == a[1] * b[2] >= b[1] * a[2]
RatSub(a, b) == Rat(a[1] * b[2] - b[1] * a[2], a[2] * b[2])
RatMulInt(a, k) == LET g == Gcd(k, a[2]) IN <<a[1] * (k \div g), a[2] \div g>>
RatDivInt(a, k) == LET g == Gcd(Abs(a[1]), k) IN <<a[1] \div g, a[2] * (k \div g)>>
\* a / b for b # 0
RatDiv(a, b) ==
    IF b[1] > 0 THEN Rat(a[1] * b[2], a[2] * b[1])
    ELSE Rat(-(a[1] * b[2]), a[2] * (-b[1]))

\* str(x) of a float with an integral value: "100.0"
FloatStr(x) == (IF x[1] < 0 THEN "-" ELSE "") \o NatToStr(Abs(x[1])) \o ".0"

\* |n / d| * 10^k rounded to the nearest integer, ties to even: the rounding
\* of the format specifications .1f and .2f applied to an exactly
\* represented value.  The digits are found by long division.
RECURSIVE RoundScaled(_, _, _)
RoundScaled(n, d, k) ==
    LET q == Abs(n) \div d
        r == Abs(n) % d
    IN  IF k = 0
        THEN (IF 2 * r < d THEN q
              ELSE IF 2 * r > d THEN q + 1
              ELSE IF q % 2 = 0 THEN q ELSE q + 1)
        ELSE q * (IF k = 2 THEN 100 ELSE 10) + RoundScaled(10 * r, d, k - 1)

\* the digits of a number of tenths: "20.0" for 200
Tenths(t) == NatToStr(t \div 10) \o "." \o NatToStr(t % 10)

\* the digits of a number of hundredths: "80.00" for 8000
Hundredths(h) ==
    NatToStr(h \div 100) \o "." \o NatToStr((h \div 10) % 10) \o NatToStr(h % 10)

\* f"{x:+.1f}" of the rational x: the sign of x (a negative value that
\* rounds to zero keeps its sign: "-0.0"), the rounded tenths
FormatSigned1f(x) ==
    (IF x[1] < 0 THEN "-" ELSE "+") \o Tenths(RoundScaled(x[1], x[2], 1))

\* f"{x:.2f}" of the rational x
Format2f(x) ==
    (IF x[1] < 0 THEN "-" ELSE "") \o Hundredths(RoundScaled(x[1], x[2], 2))

(***************************************************************************)
(* analyze-performance.py: regular expressions of parse_requirements       *)
(***************************************************************************)
SetMin(S) == CHOOSE x \in S : \A y \in S : x <= y
SetMax(S) == CHOOSE x \in S : \A y \in S : x >= y

\* the number of consecutive digits of text from position i on
RECURSIVE DigitRun(_, _)
DigitRun(text, i) ==
    IF i >= 1 /\ i <= Len(text) /\ IsDigit(CharAt(text, i))
    THEN 1 + DigitRun(text, i + 1)
    ELSE 0

NoMatch == [matched |-> FALSE, group |-> "", end |-> 0]

\* A match of  prefix.*?mid(\d+)suffix  that starts at position s: `.` does
\* not match a newline, `.*?` takes the fewest characters, `\d+` the most.
\* end is the position after the match.
MatchLazyAt(text, s, prefix, mid, suffix) ==
    IF ~StartsAt(text, s, prefix) THEN NoMatch
    ELSE
      LET from == s + Len(prefix)
          Digits(e) == 1..DigitRun(text, e + Len(mid))
          Ok(e, j) ==
              /\ \A i \in from..(e - 1) : CharAt(text, i) # "\n"
              /\ StartsAt(text, e, mid)
              /\ StartsAt(text, e + Len(mid) + j, suffix)
          E == {e \in from..Len(text) : \E j \in Digits(e) : Ok(e, j)}
      IN  IF E = {} THEN NoMatch
          ELSE LET e == SetMin(E)
                   j == SetMax({k \in Digits(e) : Ok(e, k)})
               IN  [matched |-> TRUE,
                    group |-> SubSeq(text, e + Len(mid), e + Len(mid) + j - 1),
                    end |-> e + Len(mid) + j + Len(suffix)]

\* A match of  (\d+,?\d*)suffix  that starts at position s: j1 >= 1 digits,
\* c in {0, 1} commas, j2 >= 0 digits, each taken greedily.
MatchNumberAt(text, s, suffix) ==
    LET More(j1, c) == 0..DigitRun(text, s + j1 + c)
        Ok(j1, c, j2) ==
            /\ (c = 1 => StartsAt(text, s + j1, ","))
            /\ StartsAt(text, s + j1 + c + j2, suffix)
        J1 == {j1 \in 1..DigitRun(text, s) :
                  \E c \in {0, 1} : \E j2 \in More(j1, c) : Ok(j1, c, j2)}
    IN  IF J1 = {} THEN NoMatch
        ELSE LET j1 == SetMax(J1)
                 c == SetMax({k \in {0, 1} : \E j2 \in More(j1, k) : Ok(j1, k, j2)})
                 j2 == SetMax({k \in More(j1, c) : Ok(j1, c, k)})
             IN  [matched |-> TRUE,
                  group |-> SubSeq(text, s, s + j1 + c + j2 - 1),
                  end |-> s + j1 + c + j2 + Len(suffix)]

\* the five patterns, in the order of the dict; the text is matched in lower
\* case (re.IGNORECASE), so the literals are given in lower case
RequirementTypes ==
    <<"response_time", "throughput", "memory_usage", "cache_hit_ratio", "concurrent_ops">>

PatternMatchAt(req_type, text, s) ==
    CASE req_type = "response_time" -> MatchLazyAt(text, s, "response time", "< ", "ms")
      [] req_type = "throughput" -> MatchLazyAt(text, s, "throughput", "> ", " requests/second")
      [] req_type = "memory_usage" -> MatchLazyAt(text, s, "memory usage", "< ", "mb")
      [] req_type = "cache_hit_ratio" -> MatchLazyAt(text, s, "cache hit ratio", "> ", "%")
      [] req_type = "concurrent_ops" -> MatchNumberAt(text, s, "+ concurrent operations")

\* re.findall(pattern, content, re.IGNORECASE): the groups of the
\* non-overlapping matches, leftmost first, searching on from each match's end
RECURSIVE findall(_, _, _)
findall(req_type, text, pos) ==
    LET S == {s \in pos..Len(text) : PatternMatchAt(req_type, text, s).matched}
    IN  IF S = {} THEN <<>>
        ELSE LET m == PatternMatchAt(req_type, text, SetMin(S))
             IN  <<m.group>> \o findall(req_type, text, m.end)

(***************************************************************************)
(* analyze-performance.py: PerformanceAnalyzer                             *)
(***************************************************************************)
PerformanceRequirement(name, metric, target, unit, priority) ==
    [name |-> name, metric |-> metric, target |-> target, unit |-> unit,
     priority |-> priority]

BenchmarkResult(benchmark, mode, score, unit, error) ==
    [benchmark |-> benchmark, mode |-> mode, score |-> score, unit |-> unit,
     error |-> error]

_get_unit_for_requirement(req_type) ==
    CASE req_type = "response_time" -> "ms"
      [] req_type = "throughput" -> "ops/sec"
      [] req_type = "memory_usage" -> "MB"
      [] req_type = "cache_hit_ratio" -> "%"
      [] req_type = "concurrent_ops" -> "ops"
      [] OTHER -> "unknown"

RECURSIVE RequirementsOfMatches(_, _)
RequirementsOfMatches(req_type, matches) ==
    IF matches = <<>> THEN <<>>
    ELSE <<PerformanceRequirement(req_type, req_type,
                                  RatOfInt(StrToNat(StripCommas(Head(matches)))),
                                  _get_unit_for_requirement(req_type), "high")>>
         \o RequirementsOfMatches(req_type, Tail(matches))

\* a faulty variant: the loop over the patterns ends at the first pattern
\* that matches nowhere
RECURSIVE ParsedFrom_until_unmatched(_, _)
ParsedFrom_until_unmatched(content, k) ==
    IF k > Len(RequirementTypes) THEN <<>>
    ELSE IF findall(RequirementTypes[k], lower(content), 1) = <<>> THEN <<>>
    ELSE RequirementsOfMatches(RequirementTypes[k],
                               findall(RequirementTypes[k], lower(content), 1))
         \o ParsedFrom_until_unmatched(content, k + 1)

\* the requirements parse_requirements appends for the document `content`
RECURSIVE ParsedFrom(_, _)
ParsedFrom(content, k) ==
    IF k > Len(RequirementTypes) THEN <<>>
    ELSE RequirementsOfMatches(RequirementTypes[k],
                               findall(RequirementTypes[k], lower(content), 1))
         \o ParsedFrom(content, k + 1)

parse_requirements(content) == ParsedFrom(content, 1)

\* One element of the JSON array -> one BenchmarkResult.  A JSON object is a
\* record that has a subset of the keys; dict.get supplies the defaults.
Get(obj, key, default) == IF key \in DOMAIN obj THEN obj[key] ELSE default

EmptyObject == [k \in {} |-> 0]

ResultOfObject(result) ==
    BenchmarkResult(Get(result, "benchmark", ""),
                    Get(result, "mode", ""),
                    Get(Get(result, "primaryMetric", EmptyObject), "score", RatOfInt(0)),
                    Get(Get(result, "primaryMetric", EmptyObject), "scoreUnit", ""),
                    Get(Get(result, "primaryMetric", EmptyObject), "scoreError", RatOfInt(0)))

\* A JSON value is [kind |-> k, data |-> d]: the items of an array, the
\* members of an object (a record), the characters of a string; a number and
\* null carry no data.
JsonValue(kind, data) == [kind |-> kind, data |-> data]

\* What `for result in data` iterates over: the items of an array, the keys
\* of an object, the characters of a string.  The keys of a record are taken
\* in some order; every one of them is a string.
RECURSIVE KeysOf(_)
KeysOf(keys) ==
    IF keys = {} THEN <<>>
    ELSE <<JsonValue("string", CHOOSE k \in keys : TRUE)>>
         \o KeysOf(keys \ {CHOOSE k \in keys : TRUE})

IterationOf(data) ==
    CASE data.kind = "array" -> data.data
      [] data.kind = "object" -> KeysOf(DOMAIN data.data)
      [] data.kind = "string" ->
             [i \in 1..Len(data.data) |-> JsonValue("string", CharAt(data.data, i))]

\* the number of leading items that are objects, on which result.get works
RECURSIVE ObjectsBefore(_)
ObjectsBefore(items) ==
    IF items = <<>> \/ Head(items).kind # "object" THEN 0
    ELSE 1 + ObjectsBefore(Tail(items))

\* parse_benchmark_results on the parsed value `data`: the results appended
\* to self.results, and the exception that ended the loop, if any.  A value
\* that cannot be iterated raises TypeError; an item that is not an object
\* raises AttributeError at result.get, after the items before it were
\* appended.  The members of an item are taken to be of the types JMH writes.
parse_benchmark_results(data) ==
    IF data.kind \notin {"array", "object", "string"}
    THEN [raised |-> TRUE, exception |-> "TypeError", results |-> <<>>]
    ELSE [raised |-> ObjectsBefore(IterationOf(data)) < Len(IterationOf(data)),
          exception |-> "AttributeError",
          results |-> [i \in 1..ObjectsBefore(IterationOf(data)) |->
                          ResultOfObject(IterationOf(data)[i].data)]]

\* benchmark_patterns.get(requirement.metric, [requirement.metric])
benchmark_patterns(metric) ==
    CASE metric = "response_time" -> <<"readRange", "latency">>
      [] metric = "throughput" -> <<"throughput", "ops">>
      [] metric = "memory_usage" -> <<"memory", "allocation">>
      [] metric = "cache_hit_ratio" -> <<"cache", "hit">>
      [] metric = "concurrent_ops" -> <<"concurrent", "thread">>
      [] OTHER -> <<metric>>

\* a faulty variant: the benchmark name is not lower-cased
IsRelevant_case_sensitive(requirement, result) ==
    \E k \in 1..Len(benchmark_patterns(requirement.metric)) :
        contains(lower(benchmark_patterns(requirement.metric)[k]), result.benchmark)

\* any(pattern.lower() in result.benchmark.lower() for pattern in patterns)
IsRelevant(requirement, result) ==
    LET patterns == benchmark_patterns(requirement.metric)
    IN  \E k \in 1..Len(patterns) :
            contains(lower(patterns[k]), lower(result.benchmark))

relevant_results(requirement, results) ==
    SelectSeq(results, LAMBDA result : IsRelevant(requirement, result))

\* a faulty variant: microseconds are divided like nanoseconds
_normalize_value_micro_as_nano(value, from_unit, to_unit) ==
    CASE from_unit \in {"ns", "μs"} /\ to_unit = "ms" -> RatDivInt(value, 1000000)
      [] from_unit = "B" /\ to_unit = "MB" -> RatDivInt(value, 1024 * 1024)
      [] OTHER -> value

\* conversions.get((from_unit, to_unit)), applied; the value unchanged when
\* the pair is not in the table
_normalize_value(value, from_unit, to_unit) ==
    CASE from_unit = "ns" /\ to_unit = "ms" -> RatDivInt(value, 1000000)
      [] from_unit = "μs" /\ to_unit = "ms" -> RatDivInt(value, 1000)
      [] from_unit = "ms" /\ to_unit = "ms" -> value
      [] from_unit = "ops/s" /\ to_unit = "ops/sec" -> value
      [] from_unit = "MB" /\ to_unit = "MB" -> value
      [] from_unit = "B" /\ to_unit = "MB" -> RatDivInt(value, 1024 * 1024)
      [] OTHER -> value

LowerIsBetter == {"response_time", "memory_usage"}
HigherIsBetter == {"throughput", "cache_hit_ratio", "concurrent_ops"}

\* a faulty variant: a value equal to the target fails
_evaluate_result_strict(requirement, result) ==
    IF requirement.metric \in LowerIsBetter
    THEN ~RatGE(_normalize_value(result.score, result.unit, requirement.unit),
                requirement.target)
    ELSE ~RatLE(_normalize_value(result.score, result.unit, requirement.unit),
                requirement.target)

_evaluate_result(requirement, result) ==
    LET result_value == _normalize_value(result.score, result.unit, requirement.unit)
    IN  IF requirement.metric \in LowerIsBetter
        THEN RatLE(result_value, requirement.target)
        ELSE IF requirement.metric \in HigherIsBetter
        THEN RatGE(result_value, requirement.target)
        ELSE RatGE(result_value, requirement.target)

\* a faulty variant: the sign is not flipped for the lower-is-better metrics
_calculate_margin_unflipped(requirement, result) ==
    IF requirement.target[1] = 0 THEN Raise("ZeroDivisionError")
    ELSE Return(FormatSigned1f(
             RatMulInt(RatDiv(RatSub(_normalize_value(result.score, result.unit,
                                                      requirement.unit),
                                     requirement.target),
                              requirement.target), 100)) \o "%")

\* Dividing by a target of 0.0 raises ZeroDivisionError.
_calculate_margin(requirement, result) ==
    LET result_value == _normalize_value(result.score, result.unit, requirement.unit)
        target == requirement.target
    IN  IF target[1] = 0 THEN Raise("ZeroDivisionError")
        ELSE IF requirement.metric \in LowerIsBetter
        THEN Return(FormatSigned1f(
                 RatMulInt(RatDiv(RatSub(target, result_value), target), 100)) \o "%")
        ELSE Return(FormatSigned1f(
                 RatMulInt(RatDiv(RatSub(result_value, target), target), 100)) \o "%")

TargetStr(requirement) == FloatStr(requirement.target) \o " " \o requirement.unit

\* One pass of the loop over relevant_results: the entry appended to
\* compliance_results, unless computing it raised.
AppendResult(result, meets_requirement, margin, rest) ==
    IF margin.raised THEN margin
    ELSE IF rest.raised THEN rest
    ELSE Return(<<[benchmark |-> result.benchmark,
                   value |-> Format2f(result.score) \o " " \o result.unit,
                   passes |-> meets_requirement,
                   margin |-> margin.value]>> \o rest.value)

\* the loop over relevant_results: the entries appended, or the first
\* exception raised
RECURSIVE compliance_results(_, _)
compliance_results(requirement, relevant) ==
    IF relevant = <<>> THEN Return(<<>>)
    ELSE AppendResult(Head(relevant),
                      _evaluate_result(requirement, Head(relevant)),
                      _calculate_margin(requirement, Head(relevant)),
                      compliance_results(requirement, Tail(relevant)))

\* what _check_requirement_compliance returns once the loop has ended
ComplianceOf(requirement, checked, overall_pass) ==
    IF checked.raised THEN checked
    ELSE Return([requirement |-> requirement.name,
                 target |-> TargetStr(requirement),
                 status |-> IF overall_pass THEN "PASS" ELSE "FAIL",
                 message |-> IF overall_pass
                             THEN "All benchmarks meet requirement"
                             ELSE "Some benchmarks fail requirement",
                 results |-> checked.value])

\* overall_pass: no entry has passes = False
AllPass(checked) ==
    checked.raised \/ \A k \in 1..Len(checked.value) : checked.value[k].passes

CheckRelevant(requirement, relevant) ==
    IF relevant = <<>>
    THEN Return([requirement |-> requirement.name,
                 target |-> TargetStr(requirement),
                 status |-> "NOT_TESTED",
                 message |-> "No relevant benchmark results found",
                 results |-> <<>>])
    ELSE ComplianceOf(requirement,
                      compliance_results(requirement, relevant),
                      AllPass(compliance_results(requirement, relevant)))

_check_requirement_compliance(requirement, results) ==
    CheckRelevant(requirement, relevant_results(requirement, results))

\* a faulty variant: a failure of any priority fails the analysis
Account_any_priority(compliance_report, requirement, compliance) ==
    [overall_status |-> IF compliance.status = "FAIL" THEN "FAIL"
                        ELSE compliance_report.overall_status,
     requirements |-> Append(compliance_report.requirements, compliance),
     summary |-> compliance_report.summary]

\* One pass of the loop of analyze_compliance: the report with the
\* requirement's compliance appended and counted.
Account(compliance_report, requirement, compliance) ==
    [overall_status |->
         IF compliance.status = "FAIL" /\ requirement.priority = "high"
         THEN "FAIL"
         ELSE compliance_report.overall_status,
     requirements |-> Append(compliance_report.requirements, compliance),
     summary |->
         IF compliance.status = "PASS"
         THEN [compliance_report.summary EXCEPT !.passed = @ + 1]
         ELSE IF compliance.status = "FAIL"
         THEN [compliance_report.summary EXCEPT !.failed = @ + 1]
         ELSE [compliance_report.summary EXCEPT !.not_tested = @ + 1]]

\* the loop of analyze_compliance over self.requirements[k..]: the report
\* updated requirement by requirement, or the first exception raised
RECURSIVE AnalyzeFrom(_, _, _, _)
AnalyzeStep(requirements, results, k, compliance_report, compliance) ==
    IF compliance.raised THEN compliance
    ELSE AnalyzeFrom(requirements, results, k + 1,
                     Account(compliance_report, requirements[k], compliance.value))

AnalyzeFrom(requirements, results, k, compliance_report) ==
    IF k > Len(requirements) THEN Return(compliance_report)
    ELSE AnalyzeStep(requirements, results, k, compliance_report,
                     _check_requirement_compliance(requirements[k], results))

analyze_compliance(requirements, results) ==
    AnalyzeFrom(requirements, results, 1,
        [overall_status |-> "PASS",
         requirements |-> <<>>,
         summary |-> [total_requirements |-> Len(requirements),
                      passed |-> 0, failed |-> 0, not_tested |-> 0]])

\* '\n'.join(lines)
RECURSIVE Join(_)
Join(lines) ==
    IF lines = <<>> THEN ""
    ELSE IF Len(lines) = 1 THEN lines[1]
    ELSE lines[1] \o "\n" \o Join(Tail(lines))

\* The emoji of the reports, which a TLA+ string cannot hold, are written as
\* tags.
CheckMark == "<check>"
CrossMark == "<cross>"
WarningSign == "<warning>"

status_emoji(status) ==
    CASE status = "PASS" -> CheckMark
      [] status = "FAIL" -> CrossMark
      [] status = "NOT_TESTED" -> WarningSign

RECURSIVE ResultRows(_)
ResultRows(rows) ==
    IF rows = <<>> THEN <<>>
    ELSE <<"| " \o rows[1].benchmark \o " | " \o rows[1].value \o " | "
             \o (IF rows[1].passes THEN CheckMark ELSE CrossMark) \o " | "
             \o rows[1].margin \o " |">>
         \o ResultRows(Tail(rows))

RequirementSection(req) ==
    <<"### " \o req.requirement \o " " \o status_emoji(req.status),
      "",
      "**Target**: " \o req.target,
      "**Status**: " \o req.status,
      "**Message**: " \o req.message,
      "">>
    \o (IF req.results # <<>>
        THEN <<"**Benchmark Results**:",
               "",
               "| Benchmark | Value | Passes | Margin |",
               "|-----------|-------|--------|--------|">>
             \o ResultRows(req.results) \o <<"">>
        ELSE <<>>)

RECURSIVE RequirementSections(_)
RequirementSections(reqs) ==
    IF reqs = <<>> THEN <<>>
    ELSE RequirementSection(reqs[1]) \o RequirementSections(Tail(reqs))

RECURSIVE FailedLines(_)
FailedLines(failed_reqs) ==
    IF failed_reqs = <<>> THEN <<>>
    ELSE <<"- **" \o failed_reqs[1].requirement \o "**: " \o failed_reqs[1].message>>
         \o FailedLines(Tail(failed_reqs))

\* the text generate_report writes to output_file
generate_report(compliance_data) ==
    LET summary == compliance_data.summary
        failed_reqs == SelectSeq(compliance_data.requirements,
                                 LAMBDA req : req.status = "FAIL")
    IN  Join(<<"# Performance Requirement Compliance Report",
               "",
               "**Overall Status**: " \o compliance_data.overall_status,
               "",
               "## Summary",
               "",
               "- **Total Requirements**: " \o NatToStr(summary.total_requirements),
               "- **Passed**: " \o NatToStr(summary.passed) \o " " \o CheckMark,
               "- **Failed**: " \o NatToStr(summary.failed) \o " " \o CrossMark,
               "- **Not Tested**: " \o NatToStr(summary.not_tested) \o " " \o WarningSign,
               "",
               "## Detailed Results",
               "">>
             \o RequirementSections(compliance_data.requirements)
             \o (IF failed_reqs # <<>>
                 THEN <<"## Recommendations",
                        "",
                        "The following requirements are not being met:",
                        "">>
                      \o FailedLines(failed_reqs)
                      \o <<"",
                           "Consider implementing performance optimizations or reviewing requirement targets.">>
                 ELSE <<>>))

(***************************************************************************)
(* requirement-compliance.py: RequirementParser                            *)
(*                                                                         *)
(* A document is represented by the matches re.findall returns for it, in  *)
(* order, each a record of the groups that are used: the name and the      *)
(* priority.  The other groups (details, measure, objective, deliverables, *)
(* success criteria) only fill fields that no code reads afterwards and    *)
(* are left out.                                                           *)
(***************************************************************************)
\* str.strip() of blanks
RECURSIVE lstrip(_)
lstrip(s) == IF s # "" /\ CharAt(s, 1) = " " THEN lstrip(Tail(s)) ELSE s

RECURSIVE rstrip(_)
rstrip(s) ==
    IF s # "" /\ CharAt(s, Len(s)) = " " THEN rstrip(SubSeq(s, 1, Len(s) - 1)) ELSE s

strip(s) == lstrip(rstrip(s))

QualityRequirement(match) ==
    [name |-> strip(match.name),
     type |-> "quality",
     priority |-> StrToNat(match.priority),
     status |-> "not_verified",
     verification_method |-> "automated"]

parse_quality_requirements(matches) ==
    [i \in 1..Len(matches) |-> QualityRequirement(matches[i])]

\* 1 if priority == 'critical' else 2 if priority == 'high' else 3
PriorityOf(word) ==
    IF word = "critical" THEN 1 ELSE IF word = "high" THEN 2 ELSE 3

FunctionalRequirement(match) ==
    [name |-> strip(match.name),
     type |-> "functional",
     priority |-> PriorityOf(lower(match.priority)),
     status |-> "planned",
     verification_method |-> "implementation"]

parse_functional_requirements(matches) ==
    [i \in 1..Len(matches) |-> FunctionalRequirement(matches[i])]

(***************************************************************************)
(* requirement-compliance.py: ComplianceAnalyzer                           *)
(***************************************************************************)
_extract_performance_status(report_content) ==
    IF contains("**Overall Status**: PASS", report_content) THEN "PASS"
    ELSE IF contains("**Overall Status**: FAIL", report_content) THEN "FAIL"
    ELSE "UNKNOWN"

\* the reports load_performance_reports appends for the files the patterns
\* expand to
load_performance_reports(files) ==
    [i \in 1..Len(files) |->
        [file |-> files[i].file,
         status |-> _extract_performance_status(files[i].content),
         content |-> files[i].content]]

OfType(reqs, type) == SelectSeq(reqs, LAMBDA req : req.type = type)

\* a faulty variant: the status is derived from the functional requirements
_analyze_functional_compliance_derived(reqs) ==
    [status |-> IF OfType(reqs, "functional") = <<>> THEN "PASS" ELSE "PLANNED",
     total |-> Len(OfType(reqs, "functional")),
     implemented |-> 0,
     requirements |-> OfType(reqs, "functional"),
     details |-> "Functional requirements are defined in roadmap and tracked via GitHub issues"]

_analyze_functional_compliance(reqs) ==
    [status |-> "PLANNED",
     total |-> Len(OfType(reqs, "functional")),
     implemented |-> 0,
     requirements |-> OfType(reqs, "functional"),
     details |-> "Functional requirements are defined in roadmap and tracked via GitHub issues"]

\* a faulty variant: the not_implemented test comes first
QualityStatus_unimplemented_first(name) ==
    IF contains("Virtual Thread", name) \/ contains("ByteBuffer Pool", name)
    THEN "not_implemented"
    ELSE IF contains("Thread Safety", name) \/ contains("Response Time", name)
    THEN "verified"
    ELSE "partial"

\* the status _analyze_quality_compliance assigns to a quality requirement
QualityStatus(name) ==
    IF contains("Thread Safety", name) \/ contains("Response Time", name)
    THEN "verified"
    ELSE IF contains("Virtual Thread", name) \/ contains("ByteBuffer Pool", name)
    THEN "not_implemented"
    ELSE "partial"

\* self.requirements after _analyze_quality_compliance has run
AssignQualityStatus(reqs) ==
    [i \in 1..Len(reqs) |->
        IF reqs[i].type = "quality"
        THEN [reqs[i] EXCEPT !.status = QualityStatus(reqs[i].name)]
        ELSE reqs[i]]

\* 'PASS' if failed_count == 0 else 'FAIL' if failed_count > 0 else 'PARTIAL'
QualityCategoryStatus(failed_count) ==
    IF failed_count = 0 THEN "PASS" ELSE IF failed_count > 0 THEN "FAIL" ELSE "PARTIAL"

\* a faulty variant: the requirements that are not verified count as failed
QualityCategory_counting_failures(quality_reqs, verified_count, failed_count) ==
    [status |-> QualityCategoryStatus(Len(quality_reqs) - verified_count),
     total |-> Len(quality_reqs),
     verified |-> verified_count,
     failed |-> Len(quality_reqs) - verified_count,
     requirements |-> quality_reqs,
     details |-> "Quality requirements verification: " \o NatToStr(verified_count)
                 \o " verified, " \o NatToStr(Len(quality_reqs) - verified_count)
                 \o " failed"]

\* the category _analyze_quality_compliance returns, given self.requirements
\* as it has left them; failed_count is never incremented
QualityCategory(quality_reqs, verified_count, failed_count) ==
    [status |-> QualityCategoryStatus(failed_count),
     total |-> Len(quality_reqs),
     verified |-> verified_count,
     failed |-> failed_count,
     requirements |-> quality_reqs,
     details |-> "Quality requirements verification: " \o NatToStr(verified_count)
                 \o " verified, " \o NatToStr(failed_count) \o " failed"]

_analyze_quality_compliance(assigned) ==
    QualityCategory(OfType(assigned, "quality"),
                    Len(SelectSeq(OfType(assigned, "quality"),
                            LAMBDA req : req.status = "verified")),
                    0)

\* a faulty variant: no passing report is needed to pass
PerformanceCategoryStatus_without_pass(passed_reports, failed_reports) ==
    IF failed_reports = 0 THEN "PASS" ELSE "FAIL"

\* the status of the performance category
PerformanceCategoryStatus(passed_reports, failed_reports) ==
    IF failed_reports = 0 /\ passed_reports > 0 THEN "PASS"
    ELSE IF failed_reports > 0 THEN "FAIL"
    ELSE "UNKNOWN"

PerformanceCategory(reports, passed_reports, failed_reports) ==
    [status |-> PerformanceCategoryStatus(passed_reports, failed_reports),
     total |-> Len(reports),
     passed |-> passed_reports,
     failed |-> failed_reports,
     reports |-> reports,
     details |-> "Performance compliance: " \o NatToStr(passed_reports)
                 \o " passed, " \o NatToStr(failed_reports) \o " failed"]

_analyze_performance_compliance(reports) ==
    IF reports = <<>>
    THEN [status |-> "NOT_TESTED",
          total |-> 0,
          passed |-> 0,
          failed |-> 0,
          details |-> "No performance reports available"]
    ELSE PerformanceCategory(reports,
                             Len(SelectSeq(reports, LAMBDA report : report.status = "PASS")),
                             Len(SelectSeq(reports, LAMBDA report : report.status = "FAIL")))

\* the summary statistics, counted after the quality statuses are assigned
Summary(reqs) ==
    [total_requirements |-> Len(reqs),
     implemented |-> Len(SelectSeq(reqs, LAMBDA req :
                         Get(req, "status", "not_started") \in {"implemented", "completed"})),
     verified |-> Len(SelectSeq(reqs, LAMBDA req :
                         Get(req, "status", "not_started") \in {"verified", "pass"})),
     planned |-> Len(SelectSeq(reqs, LAMBDA req : Get(req, "status", "not_started") = "planned")),
     not_started |-> Len(SelectSeq(reqs, LAMBDA req :
                         Get(req, "status", "not_started") \notin
                             {"implemented", "completed", "verified", "pass", "planned"}))]

\* a faulty variant: one passing category is enough to pass
OverallStatus_any_pass(category_statuses) ==
    IF \E i \in 1..Len(category_statuses) : category_statuses[i] = "PASS" THEN "PASS"
    ELSE IF \E i \in 1..Len(category_statuses) : category_statuses[i] = "FAIL" THEN "FAIL"
    ELSE "PARTIAL"

\* a faulty variant: a planned category does not stand in the way of PASS
OverallStatus_ignoring_planned(category_statuses) ==
    IF \A i \in 1..Len(category_statuses) : category_statuses[i] \in {"PASS", "PLANNED"}
    THEN "PASS"
    ELSE IF \E i \in 1..Len(category_statuses) : category_statuses[i] = "FAIL" THEN "FAIL"
    ELSE "PARTIAL"

\* the overall status of the category statuses, in the order functional,
\* quality, performance
OverallStatus(category_statuses) ==
    IF \A i \in 1..Len(category_statuses) : category_statuses[i] = "PASS" THEN "PASS"
    ELSE IF \E i \in 1..Len(category_statuses) : category_statuses[i] = "FAIL" THEN "FAIL"
    ELSE "PARTIAL"

Names(reqs) == [i \in 1..Len(reqs) |-> reqs[i].name]
Files(reports) == [i \in 1..Len(reports) |-> reports[i].file]

ImplementationRisk(high_priority_unimplemented) ==
    IF high_priority_unimplemented # <<>>
    THEN <<[type |-> "implementation_risk",
            severity |-> "high",
            description |-> NatToStr(Len(high_priority_unimplemented))
                            \o " high-priority requirements not yet implemented",
            requirements |-> Names(high_priority_unimplemented)]>>
    ELSE <<>>

PerformanceRisk(failed_performance) ==
    IF failed_performance # <<>>
    THEN <<[type |-> "performance_risk",
            severity |-> "high",
            description |-> NatToStr(Len(failed_performance))
                            \o " performance reports show failures",
            reports |-> Files(failed_performance)]>>
    ELSE <<>>

\* a faulty variant: only the critical requirements are a risk
_identify_risks_critical_only(reqs, reports) ==
    ImplementationRisk(SelectSeq(reqs, LAMBDA req :
        Get(req, "priority", 3) <= 1
            /\ Get(req, "status", "") \in {"not_started", "planned"}))
    \o PerformanceRisk(SelectSeq(reports, LAMBDA report : report.status = "FAIL"))

_identify_risks(reqs, reports) ==
    ImplementationRisk(SelectSeq(reqs, LAMBDA req :
        Get(req, "priority", 3) <= 2
            /\ Get(req, "status", "") \in {"not_started", "planned"}))
    \o PerformanceRisk(SelectSeq(reports, LAMBDA report : report.status = "FAIL"))

FunctionalRecommendation(planned_count) ==
    IF planned_count > 0
    THEN <<"Prioritize implementation of " \o NatToStr(planned_count)
           \o " planned functional requirements">>
    ELSE <<>>

QualityRecommendation(unverified_count) ==
    IF unverified_count > 0
    THEN <<"Implement automated verification for " \o NatToStr(unverified_count)
           \o " quality requirements">>
    ELSE <<>>

\* a faulty variant: the recommendation is made only when every report failed
PerformanceRecommendation_all_failed(reports) ==
    IF reports # <<>> /\ \A i \in 1..Len(reports) : reports[i].status = "FAIL"
    THEN <<"Address performance requirement failures before next release">>
    ELSE <<>>

PerformanceRecommendation(reports) ==
    IF \E i \in 1..Len(reports) : reports[i].status = "FAIL"
    THEN <<"Address performance requirement failures before next release">>
    ELSE <<>>

\* a faulty variant: the performance recommendation comes first
_generate_recommendations_reordered(reqs, reports) ==
    PerformanceRecommendation(reports)
    \o FunctionalRecommendation(Len(SelectSeq(OfType(reqs, "functional"),
                                     LAMBDA req : Get(req, "status", "") = "planned")))
    \o QualityRecommendation(Len(SelectSeq(OfType(reqs, "quality"),
                                     LAMBDA req : Get(req, "status", "") # "verified")))

_generate_recommendations(reqs, reports) ==
    FunctionalRecommendation(Len(SelectSeq(OfType(reqs, "functional"),
                                     LAMBDA req : Get(req, "status", "") = "planned")))
    \o QualityRecommendation(Len(SelectSeq(OfType(reqs, "quality"),
                                     LAMBDA req : Get(req, "status", "") # "verified")))
    \o PerformanceRecommendation(reports)

CategoryStatuses(categories) ==
    <<categories.functional.status, categories.quality.status,
      categories.performance.status>>

\* compliance_data as analyze_compliance returns it; `assigned` is
\* self.requirements as _analyze_quality_compliance leaves it
ComplianceData(timestamp, categories, assigned, reports) ==
    [timestamp |-> timestamp,
     overall_status |-> OverallStatus(CategoryStatuses(categories)),
     categories |-> categories,
     summary |-> Summary(assigned),
     risks |-> _identify_risks(assigned, reports),
     recommendations |-> _generate_recommendations(assigned, reports)]

\* ComplianceAnalyzer.analyze_compliance: the functional category is built
\* first, from requirements the quality analysis does not touch
ca_analyze_compliance(timestamp, reqs, reports) ==
    ComplianceData(timestamp,
                   [functional |-> _analyze_functional_compliance(reqs),
                    quality |-> _analyze_quality_compliance(AssignQualityStatus(reqs)),
                    performance |-> _analyze_performance_compliance(reports)],
                   AssignQualityStatus(reqs),
                   reports)

(***************************************************************************)
(* requirement-compliance.py: generate_compliance_report                   *)
(***************************************************************************)
\* the upper-case letter of each lower-case letter
LowerToUpper ==
    [c \in {CharAt(LowerChars, i) : i \in 1..Len(LowerChars)} |->
        CharAt(UpperChars, IndexIn(c, LowerChars))]

upperChar(c) == IF c \in DOMAIN LowerToUpper THEN LowerToUpper[c] ELSE c

IsCased(c) == c \in DOMAIN LowerToUpper \/ c \in DOMAIN UpperToLower

\* str.title(): a letter is upper-cased after a character that is no letter
\* and lower-cased after a letter
RECURSIVE TitleFrom(_, _)
TitleFrom(s, after_letter) ==
    IF s = "" THEN ""
    ELSE (IF after_letter THEN lowerChar(CharAt(s, 1)) ELSE upperChar(CharAt(s, 1)))
         \o TitleFrom(Tail(s), IsCased(CharAt(s, 1)))

title(s) == TitleFrom(s, FALSE)

\* str.replace(old, new) for single characters
RECURSIVE replace(_, _, _)
replace(s, old, new) ==
    IF s = "" THEN ""
    ELSE (IF CharAt(s, 1) = old THEN new ELSE CharAt(s, 1)) \o replace(Tail(s), old, new)

\* the emoji of this report, which the source file holds mis-encoded, as tags
YellowCircle == "<yellow>"
Clipboard == "<clipboard>"
QuestionMark == "<question>"
RedCircle == "<red>"
GreenCircle == "<green>"

category_status_emoji(status) ==
    CASE status = "PASS" -> CheckMark
      [] status = "FAIL" -> CrossMark
      [] status = "PARTIAL" -> YellowCircle
      [] status = "PLANNED" -> Clipboard
      [] status = "NOT_TESTED" -> WarningSign
      [] OTHER -> QuestionMark

severity_emoji(severity) ==
    CASE severity = "high" -> RedCircle
      [] severity = "medium" -> YellowCircle
      [] severity = "low" -> GreenCircle
      [] OTHER -> QuestionMark

\* compliance_data['categories'].items(), in insertion order
CategoryItems(categories) ==
    <<<<"functional", categories.functional>>,
      <<"quality", categories.quality>>,
      <<"performance", categories.performance>>>>

CategoryLines(category, data) ==
    <<"### " \o title(category) \o " Requirements " \o category_status_emoji(data.status),
      "",
      "**Status**: " \o data.status,
      "**Details**: " \o data.details,
      "">>

RECURSIVE CategoriesLines(_)
CategoriesLines(items) ==
    IF items = <<>> THEN <<>>
    ELSE CategoryLines(Head(items)[1], Head(items)[2]) \o CategoriesLines(Tail(items))

RiskLines(risk) ==
    <<"### " \o title(replace(risk.type, "_", " ")) \o " " \o severity_emoji(risk.severity),
      "",
      "**Severity**: " \o title(risk.severity),
      "**Description**: " \o risk.description,
      "">>

RECURSIVE RisksLines(_)
RisksLines(risks) ==
    IF risks = <<>> THEN <<>> ELSE RiskLines(Head(risks)) \o RisksLines(Tail(risks))

RiskAssessment(risks) ==
    IF risks # <<>> THEN <<"## Risk Assessment", "">> \o RisksLines(risks) ELSE <<>>

RecommendationLines(recommendations) ==
    IF recommendations # <<>>
    THEN <<"## Recommendations", "">>
         \o [i \in 1..Len(recommendations) |-> NatToStr(i) \o ". " \o recommendations[i]]
         \o <<"">>
    ELSE <<>>

generate_compliance_report(data) ==
    Join(<<"# Requirement Compliance Report",
           "",
           "**Generated**: " \o data.timestamp,
           "**Overall Status**: " \o data.overall_status,
           "",
           "## Executive Summary",
           "",
           "- **Total Requirements**: " \o NatToStr(data.summary.total_requirements),
           "- **Implemented**: " \o NatToStr(data.summary.implemented),
           "- **Verified**: " \o NatToStr(data.summary.verified),
           "- **Planned**: " \o NatToStr(data.summary.planned),
           "- **Not Started**: " \o NatToStr(data.summary.not_started),
           "",
           "## Compliance by Category",
           "">>
         \o CategoriesLines(CategoryItems(data.categories))
         \o RiskAssessment(data.risks)
         \o RecommendationLines(data.recommendations)
         \o <<"## Next Steps",
              "",
              "1. Address any failed requirements before next release",
              "2. Implement automated verification for unverified requirements",
              "3. Track progress on planned requirements",
              "4. Review and update requirements based on feedback",
              "",
              "---",
              "*This report was generated automatically by the requirement verification system.*">>)

\* a faulty variant: only a failure gives a non-zero exit code
ExitCodeFor_fail_only(overall_status) == IF overall_status = "FAIL" THEN 1 ELSE 0

\* the exit code main ends with for an overall status
ExitCodeFor(overall_status) ==
    IF overall_status = "FAIL" THEN 1
    ELSE IF overall_status = "PARTIAL" THEN 2
    ELSE 0

(***************************************************************************)
(* generate-dashboard.py: DashboardGenerator, reading the report           *)
(***************************************************************************)
\* the characters \s matches
WhitespaceChars == {" ", "\n", "\t", "\r"}

\* the number of consecutive whitespace characters of text from position i on
RECURSIVE SpaceRun(_, _)
SpaceRun(text, i) ==
    IF i >= 1 /\ i <= Len(text) /\ CharAt(text, i) \in WhitespaceChars
    THEN 1 + SpaceRun(text, i + 1)
    ELSE 0

\* the position of the first newline from position i on, or the position
\* after the text
LineEnd(text, i) ==
    SetMin({j \in i..Len(text) : CharAt(text, j) = "\n"} \cup {Len(text) + 1})

\* the positions where the literal occurs
Occurrences(text, lit) == {i \in 1..Len(text) : StartsAt(text, i, lit)}

\* a faulty variant: `\s*` takes no whitespace
RestOfLineAt_keeping_space(text, p) ==
    IF p > Len(text) \/ CharAt(text, p) = "\n" THEN NoMatch
    ELSE [matched |-> TRUE,
          group |-> SubSeq(text, p, LineEnd(text, p) - 1),
          end |-> LineEnd(text, p)]

\* A match of  \s*([^\n]+)  at position p: `\s*` takes the most whitespace
\* that leaves a character other than a newline for the group, and the group
\* runs to the end of that line.
RestOfLineAt(text, p) ==
    LET starts == {k \in 0..SpaceRun(text, p) :
                      p + k <= Len(text) /\ CharAt(text, p + k) # "\n"}
    IN  IF starts = {} THEN NoMatch
        ELSE [matched |-> TRUE,
              group |-> SubSeq(text, p + SetMax(starts),
                               LineEnd(text, p + SetMax(starts)) - 1),
              end |-> LineEnd(text, p + SetMax(starts))]

\* re.search(lit + r'\s*([^\n]+)', text): the leftmost match
SearchRestOfLine(text, lit) ==
    LET hits == {i \in Occurrences(text, lit) :
                    RestOfLineAt(text, i + Len(lit)).matched}
    IN  IF hits = {} THEN NoMatch
        ELSE RestOfLineAt(text, SetMin(hits) + Len(lit))

\* A match of  \s*(\d+)  at position p.
NumberAt(text, p) ==
    IF DigitRun(text, p + SpaceRun(text, p)) = 0 THEN NoMatch
    ELSE [matched |-> TRUE,
          group |-> SubSeq(text, p + SpaceRun(text, p),
                           p + SpaceRun(text, p)
                             + DigitRun(text, p + SpaceRun(text, p)) - 1),
          end |-> p + SpaceRun(text, p) + DigitRun(text, p + SpaceRun(text, p))]

\* re.search(lit + r'\s*(\d+)', text): the leftmost match
SearchNumber(text, lit) ==
    LET hits == {i \in Occurrences(text, lit) : NumberAt(text, i + Len(lit)).matched}
    IN  IF hits = {} THEN NoMatch
        ELSE NumberAt(text, SetMin(hits) + Len(lit))

\* `now` is datetime.now().isoformat() at the time of the call
_extract_timestamp(content, now) ==
    LET match == SearchRestOfLine(content, "**Generated**:")
    IN  IF match.matched THEN match.group ELSE now

_extract_overall_status(content) ==
    LET match == SearchRestOfLine(content, "**Overall Status**:")
    IN  IF match.matched THEN match.group ELSE "UNKNOWN"

\* int(match.group(1)) if match else 0
SummaryCount(content, lit) ==
    LET match == SearchNumber(content, lit)
    IN  IF match.matched THEN StrToNat(match.group) ELSE 0

_extract_summary(content) ==
    [total_requirements |-> SummaryCount(content, "Total Requirements**:"),
     implemented |-> SummaryCount(content, "Implemented**:"),
     verified |-> SummaryCount(content, "Verified**:"),
     planned |-> SummaryCount(content, "Planned**:"),
     not_started |-> SummaryCount(content, "Not Started**:")]

\* `$` matches at the end of the text and before a newline that ends it
AtEnd(text, j) ==
    j = Len(text) + 1 \/ (j = Len(text) /\ CharAt(text, j) = "\n")

\* A match of  heading\s*\n\n(.*?)(?=##|$)  with DOTALL at position i: `\s*`
\* takes the most whitespace that two newlines follow, and the group ends at
\* the first "##" after it or at the end of the text.
SectionAt(text, i, heading) ==
    LET p == i + Len(heading)
        gaps == {k \in 0..SpaceRun(text, p) :
                    k + 2 <= SpaceRun(text, p) /\ StartsAt(text, p + k, "\n\n")}
        q == p + SetMax(gaps) + 2
        stop == SetMin({j \in q..(Len(text) + 1) :
                           StartsAt(text, j, "##") \/ AtEnd(text, j)})
    IN  IF ~StartsAt(text, i, heading) \/ gaps = {} THEN NoMatch
        ELSE [matched |-> TRUE, group |-> SubSeq(text, q, stop - 1), end |-> stop]

\* re.search(heading + r'\s*\n\n(.*?)(?=##|$)', text, re.DOTALL)
SearchSection(text, heading) ==
    LET hits == {i \in Occurrences(text, heading) : SectionAt(text, i, heading).matched}
    IN  IF hits = {} THEN NoMatch ELSE SectionAt(text, SetMin(hits), heading)

\* the characters \w matches
WordChars ==
    {CharAt(UpperChars \o LowerChars \o DigitChars \o "_", i) :
        i \in 1..Len(UpperChars \o LowerChars \o DigitChars \o "_")}

RECURSIVE WordRun(_, _)
WordRun(text, i) ==
    IF i >= 1 /\ i <= Len(text) /\ CharAt(text, i) \in WordChars
    THEN 1 + WordRun(text, i + 1)
    ELSE 0

\* A match of  ### (\w+) Requirements ([^#]*?)(?=###|$)  at position i: the
\* second group ends at the first "###" or at the end of the text, and holds
\* no "#".
CategoryAt(text, i) ==
    LET w == WordRun(text, i + 4)
        q == i + 4 + w + Len(" Requirements ")
        stop == SetMin({j \in q..(Len(text) + 1) :
                           AtEnd(text, j) \/ CharAt(text, j) = "#"})
    IN  IF \/ ~StartsAt(text, i, "### ")
           \/ w = 0
           \/ ~StartsAt(text, i + 4 + w, " Requirements ")
        THEN NoMatch
        ELSE IF ~(StartsAt(text, stop, "###") \/ AtEnd(text, stop)) THEN NoMatch
        ELSE [matched |-> TRUE,
              name |-> SubSeq(text, i + 4, i + 3 + w),
              group |-> SubSeq(text, q, stop - 1),
              end |-> stop]

\* re.findall(category_pattern, text, re.DOTALL) from position `from` on
RECURSIVE FindCategories(_, _)
FindCategories(text, from) ==
    LET hits == {i \in from..Len(text) : CategoryAt(text, i).matched}
    IN  IF hits = {} THEN <<>>
        ELSE <<CategoryAt(text, SetMin(hits))>>
             \o FindCategories(text, CategoryAt(text, SetMin(hits)).end)

\* categories[category_name] = {...}: a key that is present keeps its place
SetItem(items, key, value) ==
    IF \E k \in 1..Len(items) : items[k].key = key
    THEN [k \in 1..Len(items) |->
             IF items[k].key = key THEN [key |-> key, value |-> value] ELSE items[k]]
    ELSE Append(items, [key |-> key, value |-> value])

\* the dictionary the loop of _extract_categories builds, as its items
RECURSIVE CategoriesOfMatches(_, _)
CategoriesOfMatches(matches, categories) ==
    IF matches = <<>> THEN categories
    ELSE CategoriesOfMatches(
             Tail(matches),
             SetItem(categories, lower(Head(matches).name),
                     [status |-> IF SearchRestOfLine(Head(matches).group,
                                                     "**Status**:").matched
                                 THEN SearchRestOfLine(Head(matches).group,
                                                       "**Status**:").group
                                 ELSE "UNKNOWN",
                      details |-> IF SearchRestOfLine(Head(matches).group,
                                                      "**Details**:").matched
                                  THEN SearchRestOfLine(Head(matches).group,
                                                        "**Details**:").group
                                  ELSE ""]))

_extract_categories(content) ==
    LET category_section == SearchSection(content, "## Compliance by Category")
    IN  IF ~category_section.matched THEN <<>>
        ELSE CategoriesOfMatches(FindCategories(category_section.group, 1), <<>>)

\* A match of
\*   ### ([^#]*?)\n\n\*\*Severity\*\*:\s*([^\n]+)\n\*\*Description\*\*:\s*([^\n]+)
\* at position i: the title is the shortest text without "#" that the
\* severity line follows, the severity is a rest of a line that the
\* description line follows.
SeverityAt(text, p) ==
    LET starts == {k \in 0..SpaceRun(text, p) :
                      /\ p + k <= Len(text)
                      /\ CharAt(text, p + k) # "\n"
                      /\ StartsAt(text, LineEnd(text, p + k), "\n**Description**:")
                      /\ RestOfLineAt(text, LineEnd(text, p + k)
                                              + Len("\n**Description**:")).matched}
    IN  IF starts = {} THEN NoMatch
        ELSE [matched |-> TRUE,
              group |-> SubSeq(text, p + SetMax(starts),
                               LineEnd(text, p + SetMax(starts)) - 1),
              end |-> LineEnd(text, p + SetMax(starts)) + Len("\n**Description**:")]

RiskAt(text, i) ==
    LET titles == {t \in (i + 4)..Len(text) :
                      /\ \A j \in (i + 4)..(t - 1) : CharAt(text, j) # "#"
                      /\ StartsAt(text, t, "\n\n**Severity**:")
                      /\ SeverityAt(text, t + Len("\n\n**Severity**:")).matched}
        t == SetMin(titles)
        severity == SeverityAt(text, t + Len("\n\n**Severity**:"))
    IN  IF ~StartsAt(text, i, "### ") \/ titles = {} THEN NoMatch
        ELSE [matched |-> TRUE,
              title |-> SubSeq(text, i + 4, t - 1),
              severity |-> severity.group,
              description |-> RestOfLineAt(text, severity.end).group,
              end |-> RestOfLineAt(text, severity.end).end]

\* str.strip() of the whitespace characters
RECURSIVE strip_whitespace(_)
strip_whitespace(s) ==
    IF s # "" /\ CharAt(s, 1) \in WhitespaceChars THEN strip_whitespace(Tail(s))
    ELSE IF s # "" /\ CharAt(s, Len(s)) \in WhitespaceChars
    THEN strip_whitespace(SubSeq(s, 1, Len(s) - 1))
    ELSE s

\* re.findall(risk_pattern, text, re.DOTALL) from position `from` on, each
\* match as the risk the loop of _extract_risks appends
RECURSIVE FindRisks(_, _)
FindRisks(text, from) ==
    LET hits == {i \in from..Len(text) : RiskAt(text, i).matched}
    IN  IF hits = {} THEN <<>>
        ELSE <<[title |-> strip_whitespace(RiskAt(text, SetMin(hits)).title),
                severity |-> strip_whitespace(RiskAt(text, SetMin(hits)).severity),
                description |-> strip_whitespace(RiskAt(text, SetMin(hits)).description)]>>
             \o FindRisks(text, RiskAt(text, SetMin(hits)).end)

_extract_risks(content) ==
    LET risk_section == SearchSection(content, "## Risk Assessment")
    IN  IF ~risk_section.matched THEN <<>>
        ELSE FindRisks(risk_section.group, 1)

\* A match of  \d+\.\s*([^\n]+)  at position i
RecommendationAt(text, i) ==
    IF DigitRun(text, i) = 0 \/ ~StartsAt(text, i + DigitRun(text, i), ".")
    THEN NoMatch
    ELSE RestOfLineAt(text, i + DigitRun(text, i) + 1)

\* re.findall(rec_pattern, text) from position `from` on
RECURSIVE FindRecommendations(_, _)
FindRecommendations(text, from) ==
    LET hits == {i \in from..Len(text) : RecommendationAt(text, i).matched}
    IN  IF hits = {} THEN <<>>
        ELSE <<RecommendationAt(text, SetMin(hits)).group>>
             \o FindRecommendations(text, RecommendationAt(text, SetMin(hits)).end)

_extract_recommendations(content) ==
    LET rec_section == SearchSection(content, "## Recommendations")
    IN  IF ~rec_section.matched THEN <<>>
        ELSE FindRecommendations(rec_section.group, 1)

\* self.compliance_data after parse_compliance_report has read the content
parse_compliance_report(content, now) ==
    [timestamp |-> _extract_timestamp(content, now),
     overall_status |-> _extract_overall_status(content),
     summary |-> _extract_summary(content),
     categories |-> _extract_categories(content),
     risks |-> _extract_risks(content),
     recommendations |-> _extract_recommendations(content)]

(***************************************************************************)
(* generate-dashboard.py: DashboardGenerator, writing the page             *)
(*                                                                         *)
(* The page is written line by line as the templates have it, without the  *)
(* indentation of the template lines.  The style sheet and the chart       *)
(* options, which are constant text, are cut down to their first lines.    *)
(***************************************************************************)
\* ''.join(strings)
RECURSIVE Concat(_)
Concat(strings) ==
    IF strings = <<>> THEN "" ELSE Head(strings) \o Concat(Tail(strings))

_get_css_styles ==
    Join(<<"",
           "* {",
           "margin: 0;",
           "padding: 0;",
           "box-sizing: border-box;",
           "}",
           "">>)

_generate_header(data) ==
    Join(<<"",
           "<div class=\"header\">",
           "<h1><target> Requirement Compliance Dashboard</h1>",
           "<p>Last Updated: " \o data.timestamp \o "</p>",
           "<div class=\"status-badge status-" \o lower(data.overall_status) \o "\">",
           "Overall Status: " \o data.overall_status,
           "</div>",
           "</div>",
           "">>)

SummaryCard(heading, number) ==
    <<"<div class=\"summary-card\">",
      "<h3>" \o heading \o "</h3>",
      "<span class=\"number\">" \o NatToStr(number) \o "</span>",
      "</div>">>

_generate_summary_cards(data) ==
    Join(<<"", "<div class=\"summary-grid\">">>
         \o SummaryCard(Clipboard \o " Total Requirements", data.summary.total_requirements)
         \o SummaryCard(CheckMark \o " Implemented", data.summary.implemented)
         \o SummaryCard("<magnifier> Verified", data.summary.verified)
         \o SummaryCard("<calendar> Planned", data.summary.planned)
         \o SummaryCard("<pause> Not Started", data.summary.not_started)
         \o <<"</div>", "">>)

_generate_charts ==
    Join(<<"",
           "<div class=\"charts-grid\">",
           "<div class=\"chart-container\">",
           "<h3><chart> Requirements Status Distribution</h3>",
           "<canvas id=\"statusChart\" width=\"400\" height=\"200\"></canvas>",
           "</div>",
           "<div class=\"chart-container\">",
           "<h3><target> Category Compliance</h3>",
           "<canvas id=\"categoryChart\" width=\"400\" height=\"200\"></canvas>",
           "</div>",
           "</div>",
           "">>)

\* emoji_map.get(name, ...) and status_emoji_map.get(status, ...)
category_emoji(name) ==
    CASE name = "functional" -> "<gear>"
      [] name = "quality" -> "<target>"
      [] name = "performance" -> "<rocket>"
      [] name = "security" -> "<lock>"
      [] OTHER -> Clipboard

dashboard_status_emoji(status) ==
    CASE status = "PASS" -> CheckMark
      [] status = "FAIL" -> CrossMark
      [] status = "PARTIAL" -> YellowCircle
      [] status = "PLANNED" -> Clipboard
      [] status = "NOT_TESTED" -> WarningSign
      [] OTHER -> QuestionMark

CategoryCard(item) ==
    Join(<<"",
           "<div class=\"category-card\">",
           "<h3>" \o category_emoji(item.key) \o " " \o title(item.key)
               \o " Requirements " \o dashboard_status_emoji(item.value.status) \o "</h3>",
           "<p><strong>Status:</strong> " \o item.value.status \o "</p>",
           "<p><strong>Details:</strong> " \o item.value.details \o "</p>",
           "</div>",
           "">>)

_generate_category_details(data) ==
    Join(<<"",
           "<div class=\"category-grid\">",
           Concat([k \in 1..Len(data.categories) |-> CategoryCard(data.categories[k])]),
           "</div>",
           "">>)

RiskItem(risk) ==
    Join(<<"",
           "<div class=\"risk-item risk-" \o lower(risk.severity) \o "\">",
           "<h4>" \o (CASE lower(risk.severity) = "high" -> RedCircle
                        [] lower(risk.severity) = "medium" -> YellowCircle
                        [] lower(risk.severity) = "low" -> GreenCircle
                        [] OTHER -> QuestionMark)
               \o " " \o risk.title \o "</h4>",
           "<p><strong>Severity:</strong> " \o title(risk.severity) \o "</p>",
           "<p>" \o risk.description \o "</p>",
           "</div>",
           "">>)

_generate_risks_section(data) ==
    IF data.risks = <<>>
    THEN Join(<<"",
                "<div class=\"risks-section\">",
                "<h2><shield> Risk Assessment</h2>",
                "<p style=\"color: #2ecc71; font-weight: bold;\">" \o CheckMark
                    \o " No significant risks identified</p>",
                "</div>",
                "">>)
    ELSE Join(<<"",
                "<div class=\"risks-section\">",
                "<h2>" \o WarningSign \o " Risk Assessment</h2>",
                Concat([k \in 1..Len(data.risks) |-> RiskItem(data.risks[k])]),
                "</div>",
                "">>)

RecommendationItem(i, rec) ==
    Join(<<"",
           "<div class=\"recommendation-item\">",
           "<strong>" \o NatToStr(i) \o ".</strong> " \o rec,
           "</div>",
           "">>)

_generate_recommendations_section(data) ==
    IF data.recommendations = <<>>
    THEN Join(<<"",
                "<div class=\"recommendations-section\">",
                "<h2><bulb> Recommendations</h2>",
                "<p style=\"color: #2ecc71; font-weight: bold;\">" \o CheckMark
                    \o " No specific recommendations at this time</p>",
                "</div>",
                "">>)
    ELSE Join(<<"",
                "<div class=\"recommendations-section\">",
                "<h2><bulb> Recommendations</h2>",
                Concat([i \in 1..Len(data.recommendations) |->
                           RecommendationItem(i, data.recommendations[i])]),
                "</div>",
                "">>)

_generate_footer ==
    Join(<<"",
           "<div class=\"footer\">",
           "<p><robot> Generated automatically by the Tileverse Range Reader "
               \o "requirement verification system</p>",
           "</div>",
           "">>)

\* repr() of a list whose items are given by their repr()
RECURSIVE CommaSeparated(_)
CommaSeparated(items) ==
    IF items = <<>> THEN ""
    ELSE IF Len(items) = 1 THEN items[1]
    ELSE items[1] \o ", " \o CommaSeparated(Tail(items))

ListRepr(items) == "[" \o CommaSeparated(items) \o "]"

\* the percentage of the category chart for a status
category_status_value(status) ==
    CASE status = "PASS" -> 100
      [] status = "FAIL" -> 0
      [] status = "PARTIAL" -> 50
      [] OTHER -> 25

_generate_javascript(data) ==
    Join(<<"",
           "// Status Distribution Chart",
           "const statusCtx = document.getElementById('statusChart').getContext('2d');",
           "new Chart(statusCtx, {",
           "type: 'doughnut',",
           "data: {",
           "labels: ['Implemented', 'Verified', 'Planned', 'Not Started'],",
           "datasets: [{",
           "data: " \o ListRepr(<<NatToStr(data.summary.implemented),
                                   NatToStr(data.summary.verified),
                                   NatToStr(data.summary.planned),
                                   NatToStr(data.summary.not_started)>>) \o ",",
           "}]",
           "}",
           "});",
           "",
           "// Category Compliance Chart",
           "const categoryCtx = document.getElementById('categoryChart').getContext('2d');",
           "new Chart(categoryCtx, {",
           "type: 'bar',",
           "data: {",
           "labels: " \o ListRepr([k \in 1..Len(data.categories) |->
                                      "'" \o data.categories[k].key \o "'"]) \o ",",
           "datasets: [{",
           "label: 'Compliance %',",
           "data: " \o ListRepr([k \in 1..Len(data.categories) |->
                                    NatToStr(category_status_value(
                                        data.categories[k].value.status))]) \o ",",
           "}]",
           "}",
           "});",
           "">>)

_generate_html(data) ==
    Join(<<"<!DOCTYPE html>",
           "<html lang=\"en\">",
           "<head>",
           "<meta charset=\"UTF-8\">",
           "<meta name=\"viewport\" content=\"width=device-width, initial-scale=1.0\">",
           "<title>Requirement Compliance Dashboard</title>",
           "<style>",
           _get_css_styles,
           "</style>",
           "<script src=\"https://cdn.jsdelivr.net/npm/chart.js\"></script>",
           "</head>",
           "<body>",
           "<div class=\"container\">",
           _generate_header(data),
           _generate_summary_cards(data),
           _generate_charts,
           _generate_category_details(data),
           _generate_risks_section(data),
           _generate_recommendations_section(data),
           _generate_footer,
           "</div>",
           "",
           "<script>",
           _generate_javascript(data),
           "</script>",
           "</body>",
           "</html>">>)

(***************************************************************************)
(* Inputs                                                                  *)
(***************************************************************************)
MaxLines == 2
MaxResults == 2
MaxRequirements == 2

SeqsUpTo(S, n) == UNION {[1..k -> S] : k \in 0..n}

NoFile == [exists |-> FALSE]
File(content) == [exists |-> TRUE, content |-> content]
None == [is_none |-> TRUE]
Some(v) == [is_none |-> FALSE, value |-> v]

\* lines of a requirements document
DocLines ==
    {"Response Time for range reads: < 100ms",
     "Response Time under no load: < 0ms",
     "Throughput: > 1000 requests/second",
     "Memory Usage: < 512MB",
     "Supports 1,000+ concurrent operations",
     "Response time target is < 100 ms"}

Docs == {Join(lines) : lines \in SeqsUpTo(DocLines, MaxLines)}

\* elements of a benchmark results array
JsonObjects ==
    {[benchmark |-> "latencyTest", mode |-> "avgt",
      primaryMetric |-> [score |-> <<80, 1>>, scoreUnit |-> "ms"]],
     [benchmark |-> "RangeReaderBenchmark.readRange", mode |-> "avgt",
      primaryMetric |-> [score |-> <<150, 1>>, scoreUnit |-> "ms", scoreError |-> <<2, 1>>]],
     [benchmark |-> "LatencyFloor",
      primaryMetric |-> [score |-> <<0, 1>>, scoreUnit |-> "ms"]],
     [benchmark |-> "throughputOps", mode |-> "thrpt",
      primaryMetric |-> [score |-> <<1500, 1>>, scoreUnit |-> "ops/s"]],
     [mode |-> "avgt"]}

\* the content of a results file: text that is not JSON, or the JSON value
\* the text holds
InvalidJson == [valid |-> FALSE]
JsonText(value) == [valid |-> TRUE, value |-> value]
JsonArray(data) ==
    JsonText(JsonValue("array", [i \in 1..Len(data) |-> JsonValue("object", data[i])]))

\* JSON values that are not arrays of objects:  {}  {"benchmark": "latencyTest"}
\* ""  "latency"  42  null  [42]  [{...}, "latency"]
OtherJsonValues ==
    {JsonValue("object", EmptyObject),
     JsonValue("object", [benchmark |-> "latencyTest"]),
     JsonValue("string", ""),
     JsonValue("string", "latency"),
     JsonValue("number", 42),
     JsonValue("null", 0),
     JsonValue("array", <<JsonValue("number", 42)>>),
     JsonValue("array",
               <<JsonValue("object",
                           [benchmark |-> "latencyTest", mode |-> "avgt",
                            primaryMetric |-> [score |-> <<80, 1>>, scoreUnit |-> "ms"]]),
                 JsonValue("string", "latency")>>)}

JsonTexts ==
    {InvalidJson}
    \cup {JsonArray(data) : data \in SeqsUpTo(JsonObjects, MaxResults)}
    \cup {JsonText(value) : value \in OtherJsonValues}

\* requirements and results for the calls of single methods
UnitMetrics ==
    {"response_time", "throughput", "memory_usage", "cache_hit_ratio", "concurrent_ops",
     "startup_time"}
UnitTargets == {<<0, 1>>, <<1, 1>>, <<100, 1>>}
UnitRequirements ==
    {PerformanceRequirement(metric, metric, target, _get_unit_for_requirement(metric), "high") :
        metric \in UnitMetrics, target \in UnitTargets}

\* a score and its unit
Measurements ==
    {<<<<0, 1>>, "ms">>, <<<<1, 2>>, "ms">>, <<<<50, 1>>, "ms">>, <<<<80, 1>>, "ms">>,
     <<<<100, 1>>, "ms">>, <<<<150, 1>>, "ms">>,
     <<<<500000, 1>>, "ns">>, <<<<1000000, 1>>, "ns">>, <<<<2000000, 1>>, "ns">>,
     <<<<1000, 1>>, "μs">>, <<<<150000, 1>>, "μs">>,
     <<<<524288, 1>>, "B">>, <<<<1048576, 1>>, "B">>,
     <<<<100, 1>>, "MB">>, <<<<1500, 1>>, "ops/s">>, <<<<100, 1>>, "s">>}
UnitResults ==
    {BenchmarkResult("latencyTest", "avgt", m[1], m[2], RatOfInt(0)) : m \in Measurements}
ToUnits == {"ms", "MB", "ops/sec", "%", "ops", "unknown", "ns"}

\* requirements and results for the calls that take lists
ListRequirements ==
    {PerformanceRequirement("response_time", "response_time", <<100, 1>>, "ms", "high"),
     PerformanceRequirement("response_time", "response_time", <<0, 1>>, "ms", "high"),
     PerformanceRequirement("throughput", "throughput", <<1000, 1>>, "ops/sec", "high"),
     PerformanceRequirement("memory_usage", "memory_usage", <<1, 1>>, "MB", "medium"),
     PerformanceRequirement("startup_time", "startup_time", <<100, 1>>, "unknown", "low")}
ListResults ==
    {BenchmarkResult("latencyTest", "avgt", <<50, 1>>, "ms", RatOfInt(0)),
     BenchmarkResult("RangeReaderBenchmark.readRange", "avgt", <<150, 1>>, "ms", <<2, 1>>),
     BenchmarkResult("memoryAllocationOps", "avgt", <<2097152, 1>>, "B", RatOfInt(0)),
     BenchmarkResult("ThroughputTest", "thrpt", <<1500, 1>>, "ops/s", RatOfInt(0)),
     BenchmarkResult("StartUp_Time_cold", "ss", <<50, 1>>, "s", RatOfInt(0))}

\* results for the reports that are written and read back; a benchmark name
\* is any string of the results file
ReportedResults ==
    {BenchmarkResult("latencyTest", "avgt", <<50, 1>>, "ms", RatOfInt(0)),
     BenchmarkResult("RangeReaderBenchmark.readRange", "avgt", <<150, 1>>, "ms", <<2, 1>>),
     BenchmarkResult("latency **Overall Status**: PASS", "avgt", <<150, 1>>, "ms",
                     RatOfInt(0))}

\* performance report files
PassingReport ==
    [file |-> "reports/read.md",
     content |-> "# Performance Requirement Compliance Report\n\n**Overall Status**: PASS\n"]
FailingReport ==
    [file |-> "reports/write.md",
     content |-> "# Performance Requirement Compliance Report\n\n**Overall Status**: FAIL\n"]
OtherReport ==
    [file |-> "reports/notes.md", content |-> "**Overall Status**: pending"]

\* requirements and loaded reports for the calls of ComplianceAnalyzer's
\* methods
MaxReports == 2
AnalyzerRequirements ==
    {QualityRequirement([name |-> "Thread Safety ", priority |-> "1"]),
     QualityRequirement([name |-> "Virtual Thread Safety ", priority |-> "2"]),
     QualityRequirement([name |-> "ByteBuffer Pool Reuse ", priority |-> "2"]),
     QualityRequirement([name |-> "Cloud Storage Latency ", priority |-> "3"]),
     FunctionalRequirement([name |-> "Thread Safety Hardening", priority |-> "Critical"]),
     FunctionalRequirement([name |-> "Tooling", priority |-> "Medium"])}
\* requirements in statuses the parsers do not assign
OtherRequirements ==
    {[FunctionalRequirement([name |-> "Cloud Providers", priority |-> "high"])
         EXCEPT !.status = "not_started"],
     [FunctionalRequirement([name |-> "Core Stabilization", priority |-> "critical"])
         EXCEPT !.status = "implemented"]}
LoadedReports ==
    {load_performance_reports(<<file>>)[1] :
        file \in {PassingReport, FailingReport, OtherReport}}

\* the statuses a category can have
CategoryStatusValues == {"PASS", "FAIL", "PARTIAL", "PLANNED", "NOT_TESTED", "UNKNOWN"}

\* the scenarios the quality requirements document holds, as matched
MaxScenarios == 2
QualityMatches ==
    {[name |-> "Thread Safety ", priority |-> "1"],
     [name |-> "Virtual Thread Support ", priority |-> "2"],
     [name |-> "Cloud Storage Latency ", priority |-> "3"]}
QualityDocs == SeqsUpTo(QualityMatches, MaxScenarios)

\* the milestones the roadmap holds, as matched
MaxMilestones == 1
RoadmapMatches ==
    {[name |-> "Core Stabilization", priority |-> "Critical"],
     [name |-> " Cloud Providers ", priority |-> "HIGH"],
     [name |-> "Tooling", priority |-> "Medium"]}
RoadmapDocs == SeqsUpTo(RoadmapMatches, MaxMilestones)

\* what glob.glob returns for a pattern, and --performance-reports: absent,
\* or a list of patterns
MaxPatterns == 1
Globs == {<<>>, <<PassingReport>>, <<FailingReport>>, <<OtherReport, PassingReport>>,
          <<PassingReport, FailingReport>>}
PatternLists == {None} \cup {Some(patterns) : patterns \in SeqsUpTo(Globs, MaxPatterns)}

\* datetime.now().isoformat()
Timestamps == {"2025-01-15T10:30:00.123456", "2025-01-15T10:30:01"}

\* what generate_compliance_report writes of a compliance result: all of it
\* but the requirement and report lists of the categories and the names the
\* risks list
Written(data) ==
    [timestamp |-> data.timestamp,
     overall_status |-> data.overall_status,
     summary |-> data.summary,
     categories |->
         [name \in {"functional", "quality", "performance"} |->
             [status |-> data.categories[name].status,
              details |-> data.categories[name].details]],
     risks |-> [k \in 1..Len(data.risks) |->
                   [type |-> data.risks[k].type,
                    severity |-> data.risks[k].severity,
                    description |-> data.risks[k].description]],
     recommendations |-> data.recommendations]

\* the compliance results that are written and read back
WrittenData ==
    {Written(ca_analyze_compliance(timestamp, reqs, reports)) :
        timestamp \in Timestamps,
        reqs \in SeqsUpTo(AnalyzerRequirements, MaxRequirements),
        reports \in SeqsUpTo(LoadedReports, MaxReports)}

\* the runs of the dashboard script on one report
MaxRuns == 2

\* the times the clock shows, in order
Clock == <<"2025-01-15T10:30:02.500000", "2025-01-15T10:31:00", "2025-01-16T08:00:00.000001">>

\* compliance reports: reports the aggregate analyzer wrote, a report whose
\* header was edited by hand, a performance report and an empty file
DashboardReports ==
    {generate_compliance_report(Written(ca_analyze_compliance(timestamp, reqs, reports))) :
        timestamp \in Timestamps,
        reqs \in {<<>>,
                  <<QualityRequirement([name |-> "Thread Safety ", priority |-> "1"]),
                    FunctionalRequirement([name |-> "Tooling", priority |-> "Medium"])>>},
        reports \in {<<>>, load_performance_reports(<<FailingReport>>)}}
    \cup {"# Requirement Compliance Report\n\n**Overall Status**: PARTIAL\n\n"
              \o "## Executive Summary\n\n- **Total Requirements**: 12\n"
              \o "- **Verified**:\n 7\n\n## Recommendations\n\n1. Review the roadmap\n",
          "# Requirement Compliance Report\n\n**Generated**:\n\n",
          PassingReport.content,
          ""}

(***************************************************************************)
(* State                                                                   *)
(***************************************************************************)
VARIABLES
    \* analyze-performance.py
    results_file,        \* the file --results names
    requirements_file,   \* the file --requirements names
    output_file,         \* the file --output names
    requirements,        \* PerformanceAnalyzer.requirements
    results,             \* PerformanceAnalyzer.results
    compliance_data,     \* main's compliance_data, None before it is assigned
    pc,                  \* main's position
    exit_code,           \* the process's exit code, -1 while it runs
    exception,           \* the uncaught exception that ended the process, or ""
    \* requirement-compliance.py
    quality_file,        \* the file --quality-requirements names
    roadmap_file,        \* the file --roadmap names
    args_performance_reports,  \* --performance-reports
    ca_requirements,     \* ComplianceAnalyzer.requirements
    performance_reports, \* ComplianceAnalyzer.performance_reports
    ca_compliance_data,  \* main's compliance_data, None before it is assigned
    ca_output_file,      \* the file --output names
    ca_pc,               \* main's position
    ca_exit_code,        \* the process's exit code, -1 while it runs
    \* generate-dashboard.py
    compliance_report,   \* the file --compliance-report names
    dashboard_file,      \* the file --output names
    generator_data,      \* generator.compliance_data
    db_pc,               \* main's position
    db_exit_code,        \* the process's exit code, -1 while it runs
    clock,               \* the position of the current time in Clock
    runs,                \* the number of runs of the script started
    earlier_dashboard,   \* the page the run before this one wrote
    \* a call of one method or block on its own
    call,                \* the function called and its arguments
    ret                  \* what the call returned

perf_vars == <<results_file, requirements_file, output_file, requirements, results,
               compliance_data, pc, exit_code, exception>>
unit_vars == <<call, ret>>
agg_vars == <<quality_file, roadmap_file, args_performance_reports, ca_requirements,
              performance_reports, ca_compliance_data, ca_output_file, ca_pc,
              ca_exit_code>>
dash_vars == <<compliance_report, dashboard_file, generator_data, db_pc, db_exit_code,
               clock, runs, earlier_dashboard>>
vars == <<perf_vars, agg_vars, dash_vars, unit_vars>>

NoCall == [fn |-> "none"]

InitPerf ==
    /\ results_file \in {NoFile} \cup {File(text) : text \in JsonTexts}
    /\ requirements_file \in {NoFile} \cup {File(doc) : doc \in Docs}
    /\ output_file = NoFile
    /\ requirements = <<>>
    /\ results = <<>>
    /\ compliance_data = None
    /\ pc = "start"
    /\ exit_code = -1
    /\ exception = ""

IdlePerf ==
    /\ results_file = NoFile
    /\ requirements_file = NoFile
    /\ output_file = NoFile
    /\ requirements = <<>>
    /\ results = <<>>
    /\ compliance_data = None
    /\ pc = "idle"
    /\ exit_code = -1
    /\ exception = ""

InitAgg ==
    /\ quality_file \in {NoFile} \cup {File(doc) : doc \in QualityDocs}
    /\ roadmap_file \in {NoFile} \cup {File(doc) : doc \in RoadmapDocs}
    /\ args_performance_reports \in PatternLists
    /\ ca_requirements = <<>>
    /\ performance_reports = <<>>
    /\ ca_compliance_data = None
    /\ ca_output_file = NoFile
    /\ ca_pc = "start"
    /\ ca_exit_code = -1

IdleAgg ==
    /\ quality_file = NoFile
    /\ roadmap_file = NoFile
    /\ args_performance_reports = None
    /\ ca_requirements = <<>>
    /\ performance_reports = <<>>
    /\ ca_compliance_data = None
    /\ ca_output_file = NoFile
    /\ ca_pc = "idle"
    /\ ca_exit_code = -1

InitUnit == call = NoCall /\ ret = None

InitDash ==
    /\ compliance_report \in {NoFile} \cup {File(text) : text \in DashboardReports}
    /\ dashboard_file = NoFile
    /\ generator_data = EmptyObject
    /\ db_pc = "start"
    /\ db_exit_code = -1
    /\ clock = 1
    /\ runs = 1
    /\ earlier_dashboard = None

IdleDash ==
    /\ compliance_report = NoFile
    /\ dashboard_file = NoFile
    /\ generator_data = EmptyObject
    /\ db_pc = "idle"
    /\ db_exit_code = -1
    /\ clock = 1
    /\ runs = 0
    /\ earlier_dashboard = None

(***************************************************************************)
(* analyze-performance.py: main                                            *)
(***************************************************************************)
\* sys.exit(code)
SysExit(code) ==
    /\ pc' = "exited"
    /\ exit_code' = code
    /\ exception' = ""

\* An exception nothing catches ends the process with exit code 1.
Uncaught(e) ==
    /\ pc' = "exited"
    /\ exit_code' = 1
    /\ exception' = e

\* main with the two checks in the other order
CheckResultsFile_checking_requirements ==
    /\ pc = "start"
    /\ IF ~requirements_file.exists
       THEN SysExit(1)
       ELSE pc' = "results_checked" /\ UNCHANGED <<exit_code, exception>>
    /\ UNCHANGED <<results_file, requirements_file, output_file, requirements,
                   results, compliance_data, agg_vars, dash_vars, unit_vars>>

CheckResultsFile ==
    /\ pc = "start"
    /\ IF ~results_file.exists
       THEN SysExit(1)
       ELSE pc' = "results_checked" /\ UNCHANGED <<exit_code, exception>>
    /\ UNCHANGED <<results_file, requirements_file, output_file, requirements,
                   results, compliance_data, agg_vars, dash_vars, unit_vars>>

CheckRequirementsFile ==
    /\ pc = "results_checked"
    /\ IF ~requirements_file.exists
       THEN SysExit(1)
       ELSE pc' = "requirements_checked" /\ UNCHANGED <<exit_code, exception>>
    /\ UNCHANGED <<results_file, requirements_file, output_file, requirements,
                   results, compliance_data, agg_vars, dash_vars, unit_vars>>

ParseRequirements ==
    /\ pc = "requirements_checked"
    /\ requirements' = requirements \o parse_requirements(requirements_file.content)
    /\ pc' = "requirements_parsed"
    /\ UNCHANGED <<results_file, requirements_file, output_file, results,
                   compliance_data, exit_code, exception, agg_vars, dash_vars, unit_vars>>

\* json.load raises JSONDecodeError on text that is not JSON; an exception
\* of the loop leaves the results appended before it in self.results.
ParseBenchmarkResults ==
    /\ pc = "requirements_parsed"
    /\ IF ~results_file.content.valid
       THEN Uncaught("JSONDecodeError") /\ UNCHANGED results
       ELSE \E parsed \in {parse_benchmark_results(results_file.content.value)} :
                /\ results' = results \o parsed.results
                /\ IF parsed.raised
                   THEN Uncaught(parsed.exception)
                   ELSE pc' = "results_parsed" /\ UNCHANGED <<exit_code, exception>>
    /\ UNCHANGED <<results_file, requirements_file, output_file, requirements,
                   compliance_data, agg_vars, dash_vars, unit_vars>>

AnalyzeCompliance ==
    /\ pc = "results_parsed"
    /\ \E report \in {analyze_compliance(requirements, results)} :
           IF report.raised
           THEN Uncaught(report.exception) /\ UNCHANGED compliance_data
           ELSE /\ compliance_data' = report.value
                /\ pc' = "analyzed"
                /\ UNCHANGED <<exit_code, exception>>
    /\ UNCHANGED <<results_file, requirements_file, output_file, requirements,
                   results, agg_vars, dash_vars, unit_vars>>

GenerateReport ==
    /\ pc = "analyzed"
    /\ output_file' = File(generate_report(compliance_data))
    /\ pc' = "reported"
    /\ UNCHANGED <<results_file, requirements_file, requirements, results,
                   compliance_data, exit_code, exception, agg_vars, dash_vars, unit_vars>>

\* the exit code of main's last lines: sys.exit(1) on FAIL, else the end of
\* the script
FinalExitCode(overall_status) == IF overall_status = "FAIL" THEN 1 ELSE 0

Exit ==
    /\ pc = "reported"
    /\ SysExit(FinalExitCode(compliance_data.overall_status))
    /\ UNCHANGED <<results_file, requirements_file, output_file, requirements,
                   results, compliance_data, agg_vars, dash_vars, unit_vars>>

Next ==
    \/ CheckResultsFile
    \/ CheckRequirementsFile
    \/ ParseRequirements
    \/ ParseBenchmarkResults
    \/ AnalyzeCompliance
    \/ GenerateReport
    \/ Exit

Init == InitPerf /\ IdleAgg /\ IdleDash /\ InitUnit

Spec == Init /\ [][Next]_vars

(***************************************************************************)
(* requirement-compliance.py: main                                         *)
(***************************************************************************)
CaSysExit(code) == ca_pc' = "exited" /\ ca_exit_code' = code

CheckQualityFile ==
    /\ ca_pc = "start"
    /\ IF ~quality_file.exists
       THEN CaSysExit(1)
       ELSE ca_pc' = "quality_checked" /\ UNCHANGED ca_exit_code
    /\ UNCHANGED <<quality_file, roadmap_file, args_performance_reports, ca_requirements,
                   performance_reports, ca_compliance_data, ca_output_file,
                   perf_vars, dash_vars, unit_vars>>

CheckRoadmapFile ==
    /\ ca_pc = "quality_checked"
    /\ IF ~roadmap_file.exists
       THEN CaSysExit(1)
       ELSE ca_pc' = "roadmap_checked" /\ UNCHANGED ca_exit_code
    /\ UNCHANGED <<quality_file, roadmap_file, args_performance_reports, ca_requirements,
                   performance_reports, ca_compliance_data, ca_output_file,
                   perf_vars, dash_vars, unit_vars>>

\* ComplianceAnalyzer.load_requirements
LoadRequirements ==
    /\ ca_pc = "roadmap_checked"
    /\ ca_requirements' = ca_requirements
                          \o parse_quality_requirements(quality_file.content)
                          \o parse_functional_requirements(roadmap_file.content)
    /\ ca_pc' = "requirements_loaded"
    /\ UNCHANGED <<quality_file, roadmap_file, args_performance_reports,
                   performance_reports, ca_compliance_data, ca_output_file,
                   ca_exit_code, perf_vars, dash_vars, unit_vars>>

\* the files of all patterns, in order
RECURSIVE Globbed(_)
Globbed(patterns) ==
    IF patterns = <<>> THEN <<>> ELSE Head(patterns) \o Globbed(Tail(patterns))

\* if args.performance_reports: analyzer.load_performance_reports(...)
LoadPerformanceReports ==
    /\ ca_pc = "requirements_loaded"
    /\ IF ~args_performance_reports.is_none /\ args_performance_reports.value # <<>>
       THEN performance_reports' =
                performance_reports
                \o load_performance_reports(Globbed(args_performance_reports.value))
       ELSE UNCHANGED performance_reports
    /\ ca_pc' = "reports_loaded"
    /\ UNCHANGED <<quality_file, roadmap_file, args_performance_reports, ca_requirements,
                   ca_compliance_data, ca_output_file, ca_exit_code,
                   perf_vars, dash_vars, unit_vars>>

\* ComplianceAnalyzer.analyze_compliance, which also assigns the quality
\* requirements their statuses
CaAnalyzeCompliance ==
    /\ ca_pc = "reports_loaded"
    /\ \E timestamp \in Timestamps :
           ca_compliance_data' =
               ca_analyze_compliance(timestamp, ca_requirements, performance_reports)
    /\ ca_requirements' = AssignQualityStatus(ca_requirements)
    /\ ca_pc' = "analyzed"
    /\ UNCHANGED <<quality_file, roadmap_file, args_performance_reports,
                   performance_reports, ca_output_file, ca_exit_code,
                   perf_vars, dash_vars, unit_vars>>

GenerateComplianceReport ==
    /\ ca_pc = "analyzed"
    /\ ca_output_file' = File(generate_compliance_report(ca_compliance_data))
    /\ ca_pc' = "reported"
    /\ UNCHANGED <<quality_file, roadmap_file, args_performance_reports, ca_requirements,
                   performance_reports, ca_compliance_data, ca_exit_code,
                   perf_vars, dash_vars, unit_vars>>

CaExit ==
    /\ ca_pc = "reported"
    /\ CaSysExit(ExitCodeFor(ca_compliance_data.overall_status))
    /\ UNCHANGED <<quality_file, roadmap_file, args_performance_reports, ca_requirements,
                   performance_reports, ca_compliance_data, ca_output_file,
                   perf_vars, dash_vars, unit_vars>>

NextAgg ==
    \/ CheckQualityFile
    \/ CheckRoadmapFile
    \/ LoadRequirements
    \/ LoadPerformanceReports
    \/ CaAnalyzeCompliance
    \/ GenerateComplianceReport
    \/ CaExit

AggInit == IdlePerf /\ InitAgg /\ IdleDash /\ InitUnit

SpecAgg == AggInit /\ [][NextAgg]_vars

(***************************************************************************)
(* generate-dashboard.py: main                                             *)
(***************************************************************************)
\* time passes while the script runs and between its runs
Tick ==
    /\ db_pc # "idle"
    /\ clock < Len(Clock)
    /\ clock' = clock + 1
    /\ UNCHANGED <<compliance_report, dashboard_file, generator_data, db_pc,
                   db_exit_code, runs, earlier_dashboard, perf_vars, agg_vars,
                   unit_vars>>

\* if not report_file.exists(): sys.exit(1)
CheckReportFile ==
    /\ db_pc = "start"
    /\ IF ~compliance_report.exists
       THEN db_pc' = "exited" /\ db_exit_code' = 1
       ELSE db_pc' = "checked" /\ UNCHANGED db_exit_code
    /\ UNCHANGED <<compliance_report, dashboard_file, generator_data, clock, runs,
                   earlier_dashboard, perf_vars, agg_vars, unit_vars>>

\* generator.parse_compliance_report(report_file)
ParseComplianceReport ==
    /\ db_pc = "checked"
    /\ generator_data' = parse_compliance_report(compliance_report.content, Clock[clock])
    /\ db_pc' = "parsed"
    /\ UNCHANGED <<compliance_report, dashboard_file, db_exit_code, clock, runs,
                   earlier_dashboard, perf_vars, agg_vars, unit_vars>>

\* generator.generate_dashboard(output_file)
GenerateDashboard ==
    /\ db_pc = "parsed"
    /\ dashboard_file' = File(_generate_html(generator_data))
    /\ db_pc' = "generated"
    /\ UNCHANGED <<compliance_report, generator_data, db_exit_code, clock, runs,
                   earlier_dashboard, perf_vars, agg_vars, unit_vars>>

\* main returns after its last print
DashboardExit ==
    /\ db_pc = "generated"
    /\ db_pc' = "exited"
    /\ db_exit_code' = 0
    /\ UNCHANGED <<compliance_report, dashboard_file, generator_data, clock, runs,
                   earlier_dashboard, perf_vars, agg_vars, unit_vars>>

\* the script is run again on the same report, which has not changed
RunAgain ==
    /\ db_pc = "exited"
    /\ db_exit_code = 0
    /\ runs < MaxRuns
    /\ runs' = runs + 1
    /\ earlier_dashboard' = Some(dashboard_file.content)
    /\ generator_data' = EmptyObject
    /\ db_pc' = "start"
    /\ db_exit_code' = -1
    /\ UNCHANGED <<compliance_report, dashboard_file, clock, perf_vars, agg_vars,
                   unit_vars>>

NextDash ==
    \/ Tick
    \/ CheckReportFile
    \/ ParseComplianceReport
    \/ GenerateDashboard
    \/ DashboardExit
    \/ RunAgain

DashInit == IdlePerf /\ IdleAgg /\ InitDash /\ InitUnit

SpecDash == DashInit /\ [][NextDash]_vars

(***************************************************************************)
(* Calls of single methods and blocks                                      *)
(***************************************************************************)
Call_normalize_value ==
    /\ call = NoCall
    /\ \E m \in Measurements, to_unit \in ToUnits :
           /\ call' = [fn |-> "_normalize_value", value |-> m[1], from_unit |-> m[2],
                       to_unit |-> to_unit, again |-> FALSE]
           /\ ret' = Return(_normalize_value(m[1], m[2], to_unit))
    /\ UNCHANGED <<perf_vars, agg_vars, dash_vars>>

\* the value a call returned, normalized once more as a value of the unit it
\* was converted to
Call_normalize_value_again ==
    /\ call.fn = "_normalize_value"
    /\ ~call.again
    /\ call' = [fn |-> "_normalize_value", value |-> ret.value, from_unit |-> call.to_unit,
                to_unit |-> call.to_unit, again |-> TRUE]
    /\ ret' = Return(_normalize_value(ret.value, call.to_unit, call.to_unit))
    /\ UNCHANGED <<perf_vars, agg_vars, dash_vars>>

Call_evaluate_result ==
    /\ call = NoCall
    /\ \E requirement \in UnitRequirements, result \in UnitResults :
           /\ call' = [fn |-> "_evaluate_result", requirement |-> requirement,
                       result |-> result]
           /\ ret' = Return(_evaluate_result(requirement, result))
    /\ UNCHANGED <<perf_vars, agg_vars, dash_vars>>

Call_calculate_margin ==
    /\ call = NoCall
    /\ \E requirement \in UnitRequirements, result \in UnitResults :
           /\ call' = [fn |-> "_calculate_margin", requirement |-> requirement,
                       result |-> result]
           /\ ret' = _calculate_margin(requirement, result)
    /\ UNCHANGED <<perf_vars, agg_vars, dash_vars>>

\* the selection of the relevant results in _check_requirement_compliance
Call_relevant_results ==
    /\ call = NoCall
    /\ \E requirement \in UnitRequirements \cup ListRequirements,
          benchmarks \in SeqsUpTo(ListResults, MaxResults) :
           /\ call' = [fn |-> "relevant_results", requirement |-> requirement,
                       results |-> benchmarks]
           /\ ret' = Return(relevant_results(requirement, benchmarks))
    /\ UNCHANGED <<perf_vars, agg_vars, dash_vars>>

Call_check_requirement_compliance ==
    /\ call = NoCall
    /\ \E requirement \in ListRequirements, benchmarks \in SeqsUpTo(ListResults, MaxResults) :
           /\ call' = [fn |-> "_check_requirement_compliance",
                       requirement |-> requirement, results |-> benchmarks]
           /\ ret' = _check_requirement_compliance(requirement, benchmarks)
    /\ UNCHANGED <<perf_vars, agg_vars, dash_vars>>

Call_analyze_compliance ==
    /\ call = NoCall
    /\ \E reqs \in SeqsUpTo(ListRequirements, MaxRequirements),
          benchmarks \in SeqsUpTo(ListResults, MaxResults) :
           /\ call' = [fn |-> "analyze_compliance", requirements |-> reqs,
                       results |-> benchmarks]
           /\ ret' = analyze_compliance(reqs, benchmarks)
    /\ UNCHANGED <<perf_vars, agg_vars, dash_vars>>

\* the overall status block of ComplianceAnalyzer.analyze_compliance
Call_overall_status ==
    /\ call = NoCall
    /\ \E category_statuses \in [1..3 -> CategoryStatusValues] :
           /\ call' = [fn |-> "overall_status", category_statuses |-> category_statuses]
           /\ ret' = Return(OverallStatus(category_statuses))
    /\ UNCHANGED <<perf_vars, agg_vars, dash_vars>>

\* ComplianceAnalyzer.analyze_compliance on an analyzer that holds the
\* requirements and the reports; `requirements` of the result is
\* self.requirements after the call
Call_ca_analyze_compliance ==
    /\ call = NoCall
    /\ \E timestamp \in Timestamps,
          reqs \in SeqsUpTo(AnalyzerRequirements, MaxRequirements),
          reports \in SeqsUpTo(LoadedReports, MaxReports) :
           /\ call' = [fn |-> "ComplianceAnalyzer.analyze_compliance",
                       requirements |-> reqs, performance_reports |-> reports]
           /\ ret' = [raised |-> FALSE,
                      value |-> ca_analyze_compliance(timestamp, reqs, reports),
                      requirements |-> AssignQualityStatus(reqs)]
    /\ UNCHANGED <<perf_vars, agg_vars, dash_vars>>

Call_identify_risks ==
    /\ call = NoCall
    /\ \E reqs \in SeqsUpTo(AnalyzerRequirements \cup OtherRequirements, MaxRequirements),
          reports \in SeqsUpTo(LoadedReports, MaxReports) :
           /\ call' = [fn |-> "_identify_risks", requirements |-> reqs,
                       performance_reports |-> reports]
           /\ ret' = Return(_identify_risks(reqs, reports))
    /\ UNCHANGED <<perf_vars, agg_vars, dash_vars>>

Call_generate_recommendations ==
    /\ call = NoCall
    /\ \E reqs \in SeqsUpTo(AnalyzerRequirements \cup OtherRequirements, MaxRequirements),
          reports \in SeqsUpTo(LoadedReports, MaxReports) :
           /\ call' = [fn |-> "_generate_recommendations", requirements |-> reqs,
                       performance_reports |-> reports]
           /\ ret' = Return(_generate_recommendations(reqs, reports))
    /\ UNCHANGED <<perf_vars, agg_vars, dash_vars>>

\* the report generate_report writes for an analysis that returned, read by
\* load_performance_reports through _extract_performance_status
Call_extract_performance_status ==
    /\ call = NoCall
    /\ \E reqs \in SeqsUpTo(ListRequirements, MaxRequirements),
          benchmarks \in SeqsUpTo(ReportedResults, MaxResults) :
           \E analysis \in {analyze_compliance(reqs, benchmarks)} :
               /\ ~analysis.raised
               /\ call' = [fn |-> "_extract_performance_status",
                           compliance_data |-> analysis.value,
                           report_content |-> generate_report(analysis.value)]
               /\ ret' = Return(_extract_performance_status(
                                    generate_report(analysis.value)))
    /\ UNCHANGED <<perf_vars, agg_vars, dash_vars>>

\* parse_compliance_report on the report generate_compliance_report writes
\* for an analysis, read at the time `now`
Call_parse_compliance_report ==
    /\ call = NoCall
    /\ \E now \in Timestamps, written \in WrittenData :
           /\ call' = [fn |-> "parse_compliance_report", written |-> written]
           /\ ret' = Return(parse_compliance_report(
                                generate_compliance_report(written), now))
    /\ UNCHANGED <<perf_vars, agg_vars, dash_vars>>

NextUnit ==
    \/ Call_normalize_value
    \/ Call_normalize_value_again
    \/ Call_evaluate_result
    \/ Call_calculate_margin
    \/ Call_relevant_results
    \/ Call_check_requirement_compliance
    \/ Call_analyze_compliance
    \/ Call_overall_status
    \/ Call_ca_analyze_compliance
    \/ Call_identify_risks
    \/ Call_generate_recommendations
    \/ Call_extract_performance_status
    \/ Call_parse_compliance_report

UnitInit == IdlePerf /\ IdleAgg /\ IdleDash /\ InitUnit

SpecUnit == UnitInit /\ [][NextUnit]_vars

(***************************************************************************)
(* Properties of the performance analyzer's methods (SpecUnit)             *)
(***************************************************************************)
Statuses(compliances) == [k \in 1..Len(compliances) |-> compliances[k].status]

\* C1: analyze_compliance gives overall_status FAIL if and only if at least
\* one high-priority requirement has status FAIL, and PASS otherwise; with
\* no requirements it gives PASS.
C1_OverallStatus ==
    (call.fn = "analyze_compliance" /\ ~ret.raised) =>
        /\ Len(ret.value.requirements) = Len(call.requirements)
        /\ ret.value.overall_status = "FAIL" <=>
               \E k \in 1..Len(call.requirements) :
                   /\ call.requirements[k].priority = "high"
                   /\ ret.value.requirements[k].status = "FAIL"
        /\ ret.value.overall_status # "FAIL" => ret.value.overall_status = "PASS"
        /\ call.requirements = <<>> => ret.value.overall_status = "PASS"

\* a requirement that is not of high priority fails, as the only failure,
\* and the overall status is PASS
C1_Witness ==
    /\ call.fn = "analyze_compliance"
    /\ ~ret.raised
    /\ \E k \in 1..Len(call.requirements) :
           /\ call.requirements[k].priority # "high"
           /\ ret.value.requirements[k].status = "FAIL"
    /\ \E k \in 1..Len(call.requirements) :
           /\ call.requirements[k].priority = "high"
           /\ ret.value.requirements[k].status = "NOT_TESTED"
    /\ ret.value.overall_status = "PASS"

\* the divisor the conversion table has for a pair of units, 1 for a pair it
\* does not convert
Divisor(from_unit, to_unit) ==
    CASE from_unit = "ns" /\ to_unit = "ms" -> 1000000
      [] from_unit = "μs" /\ to_unit = "ms" -> 1000
      [] from_unit = "B" /\ to_unit = "MB" -> 1048576
      [] OTHER -> 1

\* value / divisor <= target and value / divisor >= target
AtMost(value, divisor, target) == value[1] * target[2] <= target[1] * value[2] * divisor
AtLeast(value, divisor, target) == value[1] * target[2] >= target[1] * value[2] * divisor

\* case-insensitive containment of a keyword in a benchmark name
Mentions(name, keyword) ==
    LET lowered == lower(name)
        sought == lower(keyword)
    IN  \E i \in 1..(Len(name) - Len(keyword) + 1) :
            SubSeq(lowered, i, i + Len(keyword) - 1) = sought

Keywords(metric) ==
    CASE metric = "response_time" -> {"readRange", "latency"}
      [] metric = "throughput" -> {"throughput", "ops"}
      [] metric = "memory_usage" -> {"memory", "allocation"}
      [] metric = "cache_hit_ratio" -> {"cache", "hit"}
      [] metric = "concurrent_ops" -> {"concurrent", "thread"}
      [] OTHER -> {metric}

Matching(requirement, benchmarks) ==
    SelectSeq(benchmarks, LAMBDA result :
        \E keyword \in Keywords(requirement.metric) : Mentions(result.benchmark, keyword))

Benchmarks(entries) == [k \in 1..Len(entries) |-> entries[k].benchmark]

\* C2: for every requirement and every list of results,
\* _check_requirement_compliance returns status NOT_TESTED with no results
\* exactly when no result matches; when a result matches, it returns PASS if
\* every matched result passes _evaluate_result and FAIL otherwise.
C2_RequirementStatus ==
    call.fn = "_check_requirement_compliance" =>
        /\ ~ret.raised
        /\ (ret.value.status = "NOT_TESTED" /\ ret.value.results = <<>>) <=>
               Matching(call.requirement, call.results) = <<>>
        /\ Matching(call.requirement, call.results) # <<>> =>
               ret.value.status =
                   IF \A k \in 1..Len(Matching(call.requirement, call.results)) :
                          _evaluate_result(call.requirement,
                                           Matching(call.requirement, call.results)[k])
                   THEN "PASS" ELSE "FAIL"

\* C3: _evaluate_result passes a result of response_time or memory_usage if
\* and only if its normalized value is at most the target, and a result of
\* any other metric if and only if it is at least the target; a value equal
\* to the target passes.
C3_Direction ==
    call.fn = "_evaluate_result" =>
        LET divisor == Divisor(call.result.unit, call.requirement.unit)
            at_most == AtMost(call.result.score, divisor, call.requirement.target)
            at_least == AtLeast(call.result.score, divisor, call.requirement.target)
        IN  /\ ~ret.raised
            /\ call.requirement.metric \in {"response_time", "memory_usage"} =>
                   (ret.value <=> at_most)
            /\ call.requirement.metric \notin {"response_time", "memory_usage"} =>
                   (ret.value <=> at_least)
            /\ (at_most /\ at_least) => ret.value

\* a converted value equal to the target passes, for a metric where lower is
\* better
C3_Witness ==
    /\ call.fn = "_evaluate_result"
    /\ call.requirement.metric = "response_time"
    /\ call.requirement.target = <<1, 1>>
    /\ call.result.score = <<1000000, 1>>
    /\ call.result.unit = "ns"
    /\ ret.value = TRUE

\* the percentage distance of the normalized value from the target
Distance(requirement, result) ==
    LET value == RatDivInt(result.score, Divisor(result.unit, requirement.unit))
        target == requirement.target
    IN  RatMulInt(RatDiv(IF requirement.metric \in {"response_time", "memory_usage"}
                         THEN RatSub(target, value)
                         ELSE RatSub(value, target),
                         target),
                  100)

AllDigits(s) == s # "" /\ \A i \in 1..Len(s) : IsDigit(CharAt(s, i))

\* the text is a sign, digits, a point, one digit and "%", and the number it
\* names is the value rounded to one decimal
Renders(text, value) ==
    /\ Len(text) >= 5
    /\ CharAt(text, 1) = (IF value[1] < 0 THEN "-" ELSE "+")
    /\ AllDigits(SubSeq(text, 2, Len(text) - 3))
    /\ CharAt(text, Len(text) - 2) = "."
    /\ IsDigit(CharAt(text, Len(text) - 1))
    /\ CharAt(text, Len(text)) = "%"
    /\ 2 * Abs(10 * Abs(value[1])
               - (10 * StrToNat(SubSeq(text, 2, Len(text) - 3))
                  + StrToNat(CharAt(text, Len(text) - 1))) * value[2]) <= value[2]

\* C4: the margin is (target - value) / target * 100 for response_time and
\* memory_usage and (value - target) / target * 100 for every other metric,
\* with an explicit sign and one decimal; against a response-time target of
\* 100 ms, 50 ms passes with "+50.0%" and 150 ms fails with "-50.0%".
C4_Margin ==
    /\ (call.fn = "_calculate_margin" /\ ~ret.raised) =>
           Renders(ret.value, Distance(call.requirement, call.result))
    /\ ( /\ call.fn = "_check_requirement_compliance"
         /\ ~ret.raised
         /\ call.requirement.metric = "response_time"
         /\ call.requirement.target = <<100, 1>> ) =>
           \A k \in 1..Len(ret.value.results) :
               /\ ret.value.results[k].value = "50.00 ms" =>
                      /\ ret.value.results[k].passes
                      /\ ret.value.results[k].margin = "+50.0%"
               /\ ret.value.results[k].value = "150.00 ms" =>
                      /\ ~ret.value.results[k].passes
                      /\ ret.value.results[k].margin = "-50.0%"

\* a 50 ms and a 150 ms result are checked against the 100 ms target
C4_Witness ==
    /\ call.fn = "_check_requirement_compliance"
    /\ ~ret.raised
    /\ call.requirement.metric = "response_time"
    /\ call.requirement.target = <<100, 1>>
    /\ Len(ret.value.results) = 2
    /\ ret.value.results[1].value = "50.00 ms"
    /\ ret.value.results[1].margin = "+50.0%"
    /\ ret.value.results[2].value = "150.00 ms"
    /\ ret.value.results[2].margin = "-50.0%"

\* C5: _normalize_value divides ns by 1,000,000 and microseconds by 1,000
\* into ms and B by 2^20 into MB, and returns the value of any other pair of
\* units unchanged, raising nothing; a value normalized again as a value of
\* the unit it was converted to is unchanged.
C5_Normalize ==
    call.fn = "_normalize_value" =>
        /\ ~ret.raised
        /\ ~call.again =>
               ret.value[1] * call.value[2] * Divisor(call.from_unit, call.to_unit)
                   = call.value[1] * ret.value[2]
        /\ (~call.again /\ Divisor(call.from_unit, call.to_unit) = 1) =>
               ret.value = call.value
        /\ call.again => ret.value = call.value

\* a value converted from ns to ms has been normalized again as ms
C5_Witness ==
    /\ call.fn = "_normalize_value"
    /\ call.again
    /\ call.from_unit = "ms"
    /\ call.to_unit = "ms"
    /\ call.value = <<1, 2>>
    /\ ret.value = <<1, 2>>

\* C6: a result is relevant to a requirement if and only if its benchmark
\* name contains, ignoring case, a keyword of the requirement's metric (the
\* metric's own name for a metric without keywords); the relevant results
\* are reported in input order, and one result can be relevant to several
\* requirements.
C6_Relevance ==
    /\ call.fn = "relevant_results" =>
           ret.value = Matching(call.requirement, call.results)
    /\ (call.fn = "_check_requirement_compliance" /\ ~ret.raised) =>
           Benchmarks(ret.value.results)
               = Benchmarks(Matching(call.requirement, call.results))
    /\ (call.fn = "analyze_compliance" /\ ~ret.raised) =>
           \A k \in 1..Len(call.requirements) :
               Benchmarks(ret.value.requirements[k].results)
                   = Benchmarks(Matching(call.requirements[k], call.results))

\* one result is reported for two requirements of different metrics, after
\* a result that is relevant to one of them only
C6_Witness ==
    /\ call.fn = "analyze_compliance"
    /\ ~ret.raised
    /\ Len(call.requirements) = 2
    /\ call.requirements[1].metric = "throughput"
    /\ call.requirements[2].metric = "memory_usage"
    /\ Benchmarks(ret.value.requirements[1].results)
           = <<"ThroughputTest", "memoryAllocationOps">>
    /\ Benchmarks(ret.value.requirements[2].results) = <<"memoryAllocationOps">>

\* C9: the overall status of three category statuses is PASS if and only if
\* all three are PASS, FAIL if and only if at least one is FAIL, and PARTIAL
\* otherwise.
C9_Overall ==
    call.fn = "overall_status" =>
        LET statuses == call.category_statuses
            all_pass == \A i \in 1..3 : statuses[i] = "PASS"
            any_fail == \E i \in 1..3 : statuses[i] = "FAIL"
        IN  /\ Len(statuses) = 3
            /\ ret.value = "PASS" <=> all_pass
            /\ ret.value = "FAIL" <=> any_fail
            /\ ret.value = "PARTIAL" <=> (~all_pass /\ ~any_fail)
            /\ statuses = <<"PASS", "PASS", "PASS">> => ret.value = "PASS"
            /\ statuses = <<"PASS", "FAIL", "PASS">> => ret.value = "FAIL"
            /\ statuses = <<"PASS", "PLANNED", "NOT_TESTED">> => ret.value = "PARTIAL"

\* neither all PASS nor any FAIL
C9_Witness ==
    /\ call.fn = "overall_status"
    /\ call.category_statuses = <<"PASS", "PLANNED", "NOT_TESTED">>
    /\ ret.value = "PARTIAL"

(***************************************************************************)
(* Properties of the performance analyzer's command line (Spec)            *)
(***************************************************************************)
\* C7: when both input files exist and the results parse, the process has
\* written the report when it exits, and its exit code is 1 if and only if
\* the overall status is FAIL and 0 if it is PASS.
C7_ReportThenExit ==
    ( /\ pc = "exited"
      /\ results_file.exists
      /\ requirements_file.exists
      /\ results_file.content.valid
      /\ ~parse_benchmark_results(results_file.content.value).raised ) =>
        /\ output_file.exists
        /\ compliance_data # None
        /\ exit_code = 1 <=> compliance_data.overall_status = "FAIL"
        /\ compliance_data.overall_status = "PASS" => exit_code = 0

\* lines "Response Time ... < T ms" and their T
ResponseTimeLines ==
    {<<"Response Time for range reads: < 100ms", 100>>,
     <<"Response Time under no load: < 0ms", 0>>}

\* C8: a document that holds a line "Response Time ... < T ms" and a feed of
\* one result whose name contains "latency", in ms, with a score of at most
\* T, give one response_time requirement with target T and status PASS, the
\* margin +(T - v) / T * 100, overall status PASS and exit code 0; for
\* T = 100 and v = 80 the margin is "+20.0%".  The document is read as
\* holding that line alone.
C8_EndToEnd ==
    \A line \in ResponseTimeLines :
        ( /\ pc = "exited"
          /\ requirements_file.exists
          /\ requirements_file.content = line[1]
          /\ results_file.exists
          /\ results_file.content.valid
          /\ results_file.content.value.kind = "array"
          /\ Len(results_file.content.value.data) = 1
          /\ results_file.content.value.data[1].kind = "object"
          /\ Mentions(ResultOfObject(results_file.content.value.data[1].data).benchmark,
                      "latency")
          /\ ResultOfObject(results_file.content.value.data[1].data).unit = "ms"
          /\ RatLE(ResultOfObject(results_file.content.value.data[1].data).score,
                   RatOfInt(line[2])) ) =>
            /\ Len(requirements) = 1
            /\ requirements[1].metric = "response_time"
            /\ requirements[1].target = RatOfInt(line[2])
            /\ compliance_data # None
            /\ Statuses(compliance_data.requirements) = <<"PASS">>
            /\ Len(compliance_data.requirements[1].results) = 1
            /\ line[2] # 0 =>
                   /\ Renders(compliance_data.requirements[1].results[1].margin,
                              Distance(requirements[1], results[1]))
                   /\ CharAt(compliance_data.requirements[1].results[1].margin, 1) = "+"
            /\ (line[2] = 100 /\ results[1].score = <<80, 1>>) =>
                   compliance_data.requirements[1].results[1].margin = "+20.0%"
            /\ compliance_data.overall_status = "PASS"
            /\ exit_code = 0

(***************************************************************************)
(* Properties of the aggregate analyzer's command line (SpecAgg)           *)
(***************************************************************************)
\* C10: when the quality requirements and the roadmap exist, the process
\* has written its report when it exits, and its exit code is 0 for the
\* overall status PASS, 1 for FAIL and 2 for PARTIAL; once analyze_compliance
\* has returned, the overall status is one of these three.
C10_ExitCode ==
    /\ ca_compliance_data # None =>
           ca_compliance_data.overall_status \in {"PASS", "FAIL", "PARTIAL"}
    /\ ca_output_file.exists => ca_pc \in {"reported", "exited"}
    /\ (ca_pc = "exited" /\ quality_file.exists /\ roadmap_file.exists) =>
           /\ ca_compliance_data # None
           /\ ca_output_file.exists
           /\ ca_compliance_data.overall_status = "PASS" => ca_exit_code = 0
           /\ ca_compliance_data.overall_status = "FAIL" => ca_exit_code = 1
           /\ ca_compliance_data.overall_status = "PARTIAL" => ca_exit_code = 2
    /\ ca_pc \in {"analyzed", "reported"} => ca_compliance_data # None
    /\ ExitCodeFor("PASS") = 0

\* the process has exited with code 2 after writing a report with the
\* overall status PARTIAL
C10_Witness ==
    /\ ca_pc = "exited"
    /\ quality_file.exists
    /\ roadmap_file.exists
    /\ ca_output_file.exists
    /\ contains("**Overall Status**: PARTIAL", ca_output_file.content)
    /\ ca_compliance_data.overall_status = "PARTIAL"
    /\ ca_exit_code = 2


\* the number of the loaded reports that have the status
ReportsWith(reports, status) ==
    Cardinality({i \in 1..Len(reports) : reports[i].status = status})

\* PASS iff at least one report passed and none failed, FAIL iff at least one
\* failed, and `otherwise` in every other case
PerformanceStatusIs(status, reports, otherwise) ==
    /\ status = "PASS" <=>
           ReportsWith(reports, "PASS") >= 1 /\ ReportsWith(reports, "FAIL") = 0
    /\ status = "FAIL" <=> ReportsWith(reports, "FAIL") >= 1
    /\ status \notin {"PASS", "FAIL"} => status = otherwise

\* C11, as the specification states it: for every list of loaded reports the
\* performance category is PASS iff at least one report is PASS and none is
\* FAIL, FAIL iff at least one is FAIL, and UNKNOWN in every other case.
C11_UnknownOtherwise ==
    call.fn = "ComplianceAnalyzer.analyze_compliance" =>
        PerformanceStatusIs(ret.value.categories.performance.status,
                            call.performance_reports, "UNKNOWN")

\* C11, amended: when at least one report is loaded the performance category
\* is PASS iff at least one report is PASS and none is FAIL, FAIL iff at
\* least one is FAIL, and UNKNOWN in every other case; when no report is
\* loaded it is NOT_TESTED.
C11_PerformanceStatus ==
    call.fn = "ComplianceAnalyzer.analyze_compliance" =>
        PerformanceStatusIs(ret.value.categories.performance.status,
                            call.performance_reports,
                            IF call.performance_reports = <<>>
                            THEN "NOT_TESTED" ELSE "UNKNOWN")

\* reports without a marker only: the category is UNKNOWN
C11_Witness ==
    /\ call.fn = "ComplianceAnalyzer.analyze_compliance"
    /\ call.performance_reports # <<>>
    /\ ReportsWith(call.performance_reports, "UNKNOWN") = Len(call.performance_reports)
    /\ ret.value.categories.performance.status = "UNKNOWN"

\* C12: the functional category is PLANNED with an implemented count of 0,
\* whatever the functional requirements, the quality requirements and the
\* performance reports are.
C12_FunctionalPlanned ==
    call.fn = "ComplianceAnalyzer.analyze_compliance" =>
        /\ ret.value.categories.functional.status = "PLANNED"
        /\ ret.value.categories.functional.implemented = 0

\* no functional requirement, a verified quality requirement and a passing
\* report: the functional category is PLANNED all the same
C12_Witness ==
    /\ call.fn = "ComplianceAnalyzer.analyze_compliance"
    /\ \A i \in 1..Len(call.requirements) : call.requirements[i].type = "quality"
    /\ \E i \in 1..Len(ret.requirements) : ret.requirements[i].status = "verified"
    /\ ReportsWith(call.performance_reports, "PASS") >= 1
    /\ ret.value.categories.functional.status = "PLANNED"
    /\ ret.value.categories.functional.total = 0

\* C13: the failed count of the quality category is 0 and its status is PASS
\* or PARTIAL, never FAIL.
C13_QualityNeverFails ==
    call.fn = "ComplianceAnalyzer.analyze_compliance" =>
        /\ ret.value.categories.quality.failed = 0
        /\ ret.value.categories.quality.status \in {"PASS", "PARTIAL"}

\* quality requirements of which none is verified
C13_Witness ==
    /\ call.fn = "ComplianceAnalyzer.analyze_compliance"
    /\ ret.value.categories.quality.total = 2
    /\ ret.value.categories.quality.verified = 0
    /\ \E i \in 1..Len(ret.requirements) : ret.requirements[i].status = "not_implemented"
    /\ ret.value.categories.quality.failed = 0

\* the text occurs in the name
Within(name, text) ==
    \E i \in 1..Len(name) :
        i + Len(text) - 1 <= Len(name) /\ SubSeq(name, i, i + Len(text) - 1) = text

\* the status the rule of C14 gives to a name
StatusByName(name) ==
    CASE Within(name, "Thread Safety") \/ Within(name, "Response Time") -> "verified"
      [] ~(Within(name, "Thread Safety") \/ Within(name, "Response Time"))
            /\ (Within(name, "Virtual Thread") \/ Within(name, "ByteBuffer Pool"))
            -> "not_implemented"
      [] OTHER -> "partial"

\* C14: every quality requirement gets the status its name decides
\* (verified before not_implemented before partial), the verified count of
\* the category is the number of requirements set to verified, and no
\* functional requirement changes.
C14_StatusByName ==
    call.fn = "ComplianceAnalyzer.analyze_compliance" =>
        /\ Len(ret.requirements) = Len(call.requirements)
        /\ \A i \in 1..Len(call.requirements) :
               IF call.requirements[i].type = "quality"
               THEN /\ ret.requirements[i].status = StatusByName(call.requirements[i].name)
                    /\ ret.requirements[i]
                           = [call.requirements[i] EXCEPT
                                  !.status = ret.requirements[i].status]
               ELSE ret.requirements[i] = call.requirements[i]
        /\ ret.value.categories.quality.verified
               = Cardinality({i \in 1..Len(ret.requirements) :
                     /\ ret.requirements[i].type = "quality"
                     /\ ret.requirements[i].status = "verified"})

\* a quality name of both groups is verified, next to a functional
\* requirement whose name holds "Thread Safety" and that stays planned
C14_Witness ==
    /\ call.fn = "ComplianceAnalyzer.analyze_compliance"
    /\ Len(call.requirements) = 2
    /\ call.requirements[1].type = "quality"
    /\ Within(call.requirements[1].name, "Virtual Thread")
    /\ Within(call.requirements[1].name, "Thread Safety")
    /\ ret.requirements[1].status = "verified"
    /\ call.requirements[2].type = "functional"
    /\ Within(call.requirements[2].name, "Thread Safety")
    /\ ret.requirements[2].status = "planned"

\* the positions of the requirements that are a risk
AtRisk(reqs) ==
    {i \in 1..Len(reqs) :
        reqs[i].priority <= 2 /\ reqs[i].status \in {"not_started", "planned"}}

\* the elements of the list at the positions, in the order of the list
Pick(list, positions) ==
    [k \in 1..Cardinality(positions) |->
        list[CHOOSE i \in positions :
                 Cardinality({j \in positions : j < i}) = k - 1]]

\* the risks are those C15 describes for the requirements and the reports
RisksAsClaimed(risks, reqs, reports) ==
    /\ \A k \in 1..Len(risks) :
           /\ risks[k].type \in {"implementation_risk", "performance_risk"}
           /\ risks[k].severity = "high"
           /\ \A l \in 1..Len(risks) : risks[l].type = risks[k].type => l = k
    /\ (\E k \in 1..Len(risks) : risks[k].type = "implementation_risk")
           <=> AtRisk(reqs) # {}
    /\ \A k \in 1..Len(risks) :
           risks[k].type = "implementation_risk" =>
               risks[k].requirements
                   = Pick([i \in 1..Len(reqs) |-> reqs[i].name], AtRisk(reqs))
    /\ (\E k \in 1..Len(risks) : risks[k].type = "performance_risk")
           <=> ReportsWith(reports, "FAIL") >= 1
    /\ \A k \in 1..Len(risks) :
           risks[k].type = "performance_risk" =>
               risks[k].reports
                   = Pick([i \in 1..Len(reports) |-> reports[i].file],
                          {i \in 1..Len(reports) : reports[i].status = "FAIL"})

\* C15: there is an implementation_risk of severity high iff a requirement
\* has priority <= 2 and status not_started or planned when the risks are
\* identified, and it names exactly those; there is a performance_risk of
\* severity high iff a loaded report has status FAIL, and it names exactly
\* those files; there is no other risk.
C15_Risks ==
    /\ call.fn = "_identify_risks" =>
           RisksAsClaimed(ret.value, call.requirements, call.performance_reports)
    /\ call.fn = "ComplianceAnalyzer.analyze_compliance" =>
           RisksAsClaimed(ret.value.risks, ret.requirements, call.performance_reports)

\* a planned requirement of priority 2 is named, one of priority 3 is not,
\* and a failed report is named
C15_Witness ==
    /\ call.fn = "_identify_risks"
    /\ Len(call.requirements) = 2
    /\ call.requirements[1].priority = 3
    /\ call.requirements[2].priority = 2
    /\ call.requirements[2].status = "not_started"
    /\ Len(ret.value) = 2
    /\ ret.value[1].requirements = <<call.requirements[2].name>>
    /\ ret.value[2].type = "performance_risk"

\* the number as decimal digits
Digits(n) ==
    IF n < 10 THEN SubSeq("0123456789", n + 1, n + 1)
    ELSE SubSeq("0123456789", (n \div 10) + 1, (n \div 10) + 1)
         \o SubSeq("0123456789", (n % 10) + 1, (n % 10) + 1)

\* the recommendations C16 describes: each is present iff its count is not
\* zero, in the order functional, quality, performance
RecommendationsAsClaimed(planned_functional, unverified_quality, failed_reports) ==
    (IF planned_functional >= 1
     THEN <<"Prioritize implementation of " \o Digits(planned_functional)
            \o " planned functional requirements">>
     ELSE <<>>)
    \o (IF unverified_quality >= 1
        THEN <<"Implement automated verification for " \o Digits(unverified_quality)
               \o " quality requirements">>
        ELSE <<>>)
    \o (IF failed_reports >= 1
        THEN <<"Address performance requirement failures before next release">>
        ELSE <<>>)

C17_ReadBack ==
    call.fn = "_extract_performance_status" =>
        /\ call.compliance_data.overall_status \in {"PASS", "FAIL"} =>
               ret.value = call.compliance_data.overall_status
        /\ ret.value = "UNKNOWN" =>
               /\ ~Within(call.report_content, "**Overall Status**: PASS")
               /\ ~Within(call.report_content, "**Overall Status**: FAIL")

\* the reports of the results whose benchmark names hold no marker are read
\* back with the status that was written
ReadBackOfPlainNames ==
    (/\ call.fn = "_extract_performance_status"
     /\ \A i \in 1..Len(call.compliance_data.requirements) :
            \A j \in 1..Len(call.compliance_data.requirements[i].results) :
                ~Within(call.compliance_data.requirements[i].results[j].benchmark,
                        "**Overall Status**")) =>
        ret.value = call.compliance_data.overall_status


\* C18: from the report generate_compliance_report writes,
\* parse_compliance_report recovers the written timestamp, the written
\* overall status and the five written summary counts.
C18_SummaryReadBack ==
    call.fn = "parse_compliance_report" =>
        /\ ret.value.timestamp = call.written.timestamp
        /\ ret.value.overall_status = call.written.overall_status
        /\ ret.value.summary.total_requirements = call.written.summary.total_requirements
        /\ ret.value.summary.implemented = call.written.summary.implemented
        /\ ret.value.summary.verified = call.written.summary.verified
        /\ ret.value.summary.planned = call.written.summary.planned
        /\ ret.value.summary.not_started = call.written.summary.not_started

\* a report with counts other than 0 is read back
C18_Witness ==
    /\ call.fn = "parse_compliance_report"
    /\ call.written.overall_status = "FAIL"
    /\ call.written.summary.planned = 1
    /\ call.written.summary.verified = 1
    /\ ret.value.summary.total_requirements = 2
    /\ ret.value.timestamp = call.written.timestamp

\* C19: from the report generate_compliance_report writes,
\* parse_compliance_report recovers one category entry for each of
\* functional, quality and performance with the written status and details,
\* one risk entry for each written risk, and the written recommendations in
\* order.
C19_SectionsReadBack ==
    call.fn = "parse_compliance_report" =>
        /\ \A name \in {"functional", "quality", "performance"} :
               /\ Cardinality({k \in 1..Len(ret.value.categories) :
                      ret.value.categories[k].key = name}) = 1
               /\ \A k \in 1..Len(ret.value.categories) :
                      ret.value.categories[k].key = name =>
                          /\ ret.value.categories[k].value.status
                                 = call.written.categories[name].status
                          /\ ret.value.categories[k].value.details
                                 = call.written.categories[name].details
        /\ Len(ret.value.risks) = Len(call.written.risks)
        /\ \A k \in 1..Len(call.written.risks) :
               /\ k <= Len(ret.value.risks)
               /\ ret.value.risks[k].description = call.written.risks[k].description
               /\ lower(ret.value.risks[k].severity) = call.written.risks[k].severity
        /\ ret.value.recommendations = call.written.recommendations

\* what is read back of the sections: no category and no risk of any written
\* report, and the written recommendations
SectionsAsRead ==
    call.fn = "parse_compliance_report" =>
        /\ ret.value.categories = <<>>
        /\ ret.value.risks = <<>>
        /\ ret.value.recommendations = call.written.recommendations


(***************************************************************************)
(* Properties of the dashboard script (SpecDash)                           *)
(***************************************************************************)
\* C20: the script run twice on the same unchanged report, at any two
\* times, writes the same page: the page depends on nothing but the text of
\* the report.
C20_Idempotent ==
    (db_pc = "generated" /\ ~earlier_dashboard.is_none) =>
        dashboard_file.content = earlier_dashboard.value

\* the runs on a report that has a line "**Generated**: ..." write the same
\* page
SamePageWhenDated ==
    (/\ db_pc = "generated"
     /\ ~earlier_dashboard.is_none
     /\ SearchRestOfLine(compliance_report.content, "**Generated**:").matched) =>
        dashboard_file.content = earlier_dashboard.value


(***************************************************************************)
(* Inputs that are not an array of objects (Spec)                          *)
(***************************************************************************)
\* the results file holds valid JSON whose top-level value is an array of
\* objects
ArrayOfObjects(content) ==
    /\ content.valid
    /\ content.value.kind = "array"
    /\ \A i \in 1..Len(content.value.data) : content.value.data[i].kind = "object"

\* the run on existing files ended in parse_benchmark_results with an
\* exception nobody caught: no analysis, no report, exit code 1
ParseErrorPropagated ==
    /\ pc \notin {"results_parsed", "analyzed", "reported"}
    /\ pc = "exited" => exception # "" /\ exit_code = 1 /\ ~output_file.exists

\* C21: whenever the results file is not valid JSON or its top-level value
\* is not an array of objects, parse_benchmark_results fails with a
\* propagated error; the input is never accepted as an empty result list.
C21_RejectsOtherJson ==
    ( /\ results_file.exists
      /\ requirements_file.exists
      /\ ~ArrayOfObjects(results_file.content) ) => ParseErrorPropagated

\* What the code does instead: the error is propagated unless there is
\* nothing to iterate over, as in {} and "".
RejectsWhatIsNotEmpty ==
    ( /\ results_file.exists
      /\ requirements_file.exists
      /\ ~ArrayOfObjects(results_file.content)
      /\ ~( /\ results_file.content.valid
            /\ results_file.content.value.kind \in {"object", "string"}
            /\ IterationOf(results_file.content.value) = <<>> ) ) =>
        ParseErrorPropagated

\* {} and "" are read as no results at all, and the report is written.
EmptyObjectAccepted ==
    /\ pc = "exited"
    /\ results_file.exists
    /\ results_file.content = JsonText(JsonValue("object", EmptyObject))
    /\ results = <<>>
    /\ exception = ""
    /\ output_file.exists


(***************************************************************************)
(* Missing input files: a run of any of the three tools (SpecCli)          *)
(***************************************************************************)
\* what the file --output names holds when an earlier run left it there
EarlierOutput == File("# written by an earlier run\n")

\* results files of at most one result
FewJsonTexts ==
    {InvalidJson, JsonArray(<<>>)} \cup {JsonArray(<<result>>) : result \in JsonObjects}

StartPerf ==
    /\ results_file \in {NoFile} \cup {File(text) : text \in FewJsonTexts}
    /\ requirements_file \in {NoFile} \cup {File(doc) : doc \in Docs}
    /\ output_file \in {NoFile, EarlierOutput}
    /\ requirements = <<>>
    /\ results = <<>>
    /\ compliance_data = None
    /\ pc = "start"
    /\ exit_code = -1
    /\ exception = ""

StartAgg ==
    /\ quality_file \in {NoFile} \cup {File(doc) : doc \in QualityDocs}
    /\ roadmap_file \in {NoFile} \cup {File(doc) : doc \in RoadmapDocs}
    /\ args_performance_reports \in PatternLists
    /\ ca_requirements = <<>>
    /\ performance_reports = <<>>
    /\ ca_compliance_data = None
    /\ ca_output_file \in {NoFile, EarlierOutput}
    /\ ca_pc = "start"
    /\ ca_exit_code = -1

StartDash ==
    /\ compliance_report \in {NoFile} \cup {File(text) : text \in DashboardReports}
    /\ dashboard_file \in {NoFile, EarlierOutput}
    /\ generator_data = EmptyObject
    /\ db_pc = "start"
    /\ db_exit_code = -1
    /\ clock = 1
    /\ runs = 1
    /\ earlier_dashboard = None

CliInit ==
    \/ StartPerf /\ IdleAgg /\ IdleDash /\ InitUnit
    \/ IdlePerf /\ StartAgg /\ IdleDash /\ InitUnit
    \/ IdlePerf /\ IdleAgg /\ StartDash /\ InitUnit

NextCli == Next \/ NextAgg \/ NextDash

SpecCli == CliInit /\ [][NextCli]_vars

\* the step of a run whose next check finds its file missing
PerfInputMissing ==
    \/ pc = "start" /\ ~results_file.exists
    \/ pc = "results_checked" /\ ~requirements_file.exists
AggInputMissing ==
    \/ ca_pc = "start" /\ ~quality_file.exists
    \/ ca_pc = "quality_checked" /\ ~roadmap_file.exists
DashInputMissing == db_pc = "start" /\ ~compliance_report.exists

\* C22: in each tool a run whose required input file is missing exits with
\* code 1 at the check (the only step it takes, but for the clock's), with
\* nothing parsed or analysed and the output file as it was; the performance analyzer checks the results file first, then
\* the requirements file, and the aggregate analyzer the quality file first,
\* then the roadmap file.
C22_MissingInput ==
    [][ /\ PerfInputMissing =>
               /\ pc' = "exited" /\ exit_code' = 1 /\ exception' = ""
               /\ output_file' = output_file
               /\ requirements' = <<>> /\ results' = <<>> /\ compliance_data' = None
        /\ pc' = "results_checked" => pc = "start" /\ results_file.exists
        /\ pc' = "requirements_checked" =>
               pc = "results_checked" /\ requirements_file.exists
        /\ AggInputMissing =>
               /\ ca_pc' = "exited" /\ ca_exit_code' = 1
               /\ ca_output_file' = ca_output_file
               /\ ca_requirements' = <<>> /\ performance_reports' = <<>>
               /\ ca_compliance_data' = None
        /\ ca_pc' = "quality_checked" => ca_pc = "start" /\ quality_file.exists
        /\ ca_pc' = "roadmap_checked" =>
               ca_pc = "quality_checked" /\ roadmap_file.exists
        /\ DashInputMissing =>
               /\ db_pc' # db_pc => db_pc' = "exited" /\ db_exit_code' = 1
               /\ dashboard_file' = dashboard_file
               /\ generator_data' = EmptyObject
        /\ db_pc' = "checked" /\ db_pc' # db_pc =>
               db_pc = "start" /\ compliance_report.exists
      ]_vars

\* the performance analyzer has exited on a missing requirements file, next
\* to a results file that is there, and left the earlier report in place
C22_Witness ==
    /\ pc = "exited"
    /\ exit_code = 1
    /\ results_file.exists
    /\ ~requirements_file.exists
    /\ output_file = EarlierOutput


(***************************************************************************)
(* Patterns that do not match (SpecCli)                                    *)
(***************************************************************************)
\* the pattern of the metric matches nowhere in the document
MatchesNowhere(req_type, content) ==
    LET text == lower(content)
    IN  \A s \in 1..Len(text) : ~PatternMatchAt(req_type, text, s).matched

NoPatternMatches(content) ==
    \A k \in 1..Len(RequirementTypes) : MatchesNowhere(RequirementTypes[k], content)

OfMetric(reqs, metric) == SelectSeq(reqs, LAMBDA req : req.metric = metric)

NoCounts == [total_requirements |-> 0, passed |-> 0, failed |-> 0, not_tested |-> 0]

\* C23: a metric whose pattern matches nowhere in the requirements document
\* yields no requirement and no error, and every metric yields the
\* requirements of its own matches whatever the other patterns do; a
\* document matching no pattern yields no requirement and a report whose
\* total, passed, failed and not-tested counts are 0.
C23_UnmatchedPatterns ==
    /\ pc = "requirements_parsed" =>
           \A k \in 1..Len(RequirementTypes) :
               /\ MatchesNowhere(RequirementTypes[k], requirements_file.content) =>
                      OfMetric(requirements, RequirementTypes[k]) = <<>>
               /\ OfMetric(requirements, RequirementTypes[k])
                      = RequirementsOfMatches(
                            RequirementTypes[k],
                            findall(RequirementTypes[k],
                                    lower(requirements_file.content), 1))
    /\ ( /\ pc \in {"results_parsed", "analyzed", "reported", "exited"}
         /\ results_file.exists
         /\ requirements_file.exists ) =>
           \/ /\ requirements = <<>>
              /\ pc \in {"analyzed", "reported"} => compliance_data.summary = NoCounts
              /\ pc = "exited" /\ exception = "" =>
                     /\ compliance_data.summary = NoCounts
                     /\ output_file.exists
                     /\ exit_code = 0
           \/ ~NoPatternMatches(requirements_file.content)

\* the response time line is not in the pattern's form, the throughput line
\* is: the run has analysed the one throughput requirement
C23_Witness ==
    /\ pc = "analyzed"
    /\ requirements_file.content
           = "Response time target is < 100 ms\nThroughput: > 1000 requests/second"
    /\ MatchesNowhere("response_time", requirements_file.content)
    /\ Len(requirements) = 1
    /\ requirements[1].metric = "throughput"
    /\ results # <<>>

\* a document that is not empty and matches no pattern: the report is written
\* with all counts 0
NoPatternReported ==
    /\ pc = "reported"
    /\ requirements_file.content = "Response time target is < 100 ms"
    /\ results # <<>>
    /\ compliance_data.summary = NoCounts


(***************************************************************************)
(* The overall status of the aggregate analyzer (SpecAgg)                  *)
(***************************************************************************)
\* C24: whatever the quality document, the roadmap and the performance
\* reports are, the overall status analyze_compliance returns is FAIL or
\* PARTIAL, never PASS, and a run that completed the analysis exits with
\* code 1 (FAIL) or 2 (PARTIAL), never 0.
C24_NeverPass ==
    /\ ca_compliance_data # None =>
           ca_compliance_data.overall_status \in {"FAIL", "PARTIAL"}
    /\ (ca_pc = "exited" /\ ca_compliance_data # None) =>
           /\ ca_exit_code \in {1, 2}
           /\ ca_exit_code = 1 <=> ca_compliance_data.overall_status = "FAIL"
           /\ ca_exit_code = 2 <=> ca_compliance_data.overall_status = "PARTIAL"

\* every quality requirement verified and every loaded report passing: the
\* quality and performance categories are PASS, and the run still ends
\* PARTIAL with exit code 2
C24_Witness ==
    /\ ca_pc = "exited"
    /\ ca_compliance_data # None
    /\ ca_compliance_data.categories.quality.status = "PASS"
    /\ ca_compliance_data.categories.quality.total >= 1
    /\ ca_compliance_data.categories.performance.status = "PASS"
    /\ ca_compliance_data.categories.functional.total = 0
    /\ ca_compliance_data.overall_status = "PARTIAL"
    /\ ca_exit_code = 2


\* the result lists a risk of type performance_risk
HasPerformanceRisk(data) ==
    \E i \in 1..Len(data.risks) : data.risks[i].type = "performance_risk"

\* the result recommends to address the performance failures
HasPerformanceRecommendation(data) ==
    \E i \in 1..Len(data.recommendations) :
        data.recommendations[i]
            = "Address performance requirement failures before next release"

\* C25: the overall status is FAIL iff at least one loaded performance
\* report has the status FAIL, and PARTIAL otherwise; a FAIL result holds a
\* performance_risk entry and the recommendation to address the performance
\* failures, a PARTIAL result holds neither.
C25_FailIffReportFails ==
    ca_compliance_data # None =>
        /\ ca_compliance_data.overall_status = "FAIL" <=>
               ReportsWith(performance_reports, "FAIL") >= 1
        /\ ca_compliance_data.overall_status # "FAIL" =>
               ca_compliance_data.overall_status = "PARTIAL"
        /\ ca_compliance_data.overall_status = "FAIL" =>
               /\ HasPerformanceRisk(ca_compliance_data)
               /\ HasPerformanceRecommendation(ca_compliance_data)
        /\ ca_compliance_data.overall_status = "PARTIAL" =>
               /\ ~HasPerformanceRisk(ca_compliance_data)
               /\ ~HasPerformanceRecommendation(ca_compliance_data)

\* one report passed and one failed: FAIL, with the risk and the
\* recommendation, and exit code 1
C25_Witness ==
    /\ ca_pc = "exited"
    /\ ca_compliance_data # None
    /\ ReportsWith(performance_reports, "PASS") = 1
    /\ ReportsWith(performance_reports, "FAIL") = 1
    /\ ca_compliance_data.overall_status = "FAIL"
    /\ HasPerformanceRisk(ca_compliance_data)
    /\ HasPerformanceRecommendation(ca_compliance_data)
    /\ ca_exit_code = 1

\* reports were loaded and none failed: PARTIAL, with neither
PartialWithoutPerformanceRisk ==
    /\ ca_pc = "exited"
    /\ ca_compliance_data # None
    /\ performance_reports # <<>>
    /\ ca_compliance_data.overall_status = "PARTIAL"
    /\ ca_compliance_data.risks # <<>>
    /\ ~HasPerformanceRisk(ca_compliance_data)


(***************************************************************************)
(* analyze_compliance on a target of 0 (SpecUnit)                          *)
(***************************************************************************)
\* a requirement as parse_requirements builds it: one of the five metrics,
\* named after it, with the metric's unit, priority high and a target that
\* is a non-negative integer
Extractable(requirement) ==
    /\ \E k \in 1..Len(RequirementTypes) : requirement.metric = RequirementTypes[k]
    /\ requirement.name = requirement.metric
    /\ requirement.unit = _get_unit_for_requirement(requirement.metric)
    /\ requirement.priority = "high"
    /\ requirement.target[1] >= 0 /\ requirement.target[2] = 1

\* C26: analyze_compliance returns a report, raising no error, for every
\* list of requirements the extractor can produce, a target of 0 included,
\* and every list of results; the margin of a matched result is defined when
\* the target is 0.
C26_NoError ==
    /\ ( /\ call.fn = "analyze_compliance"
         /\ \A i \in 1..Len(call.requirements) : Extractable(call.requirements[i]) ) =>
           ~ret.raised
    /\ ( /\ call.fn = "_calculate_margin"
         /\ Extractable(call.requirement)
         /\ call.requirement.target = RatOfInt(0) ) =>
           ~ret.raised

\* What the code does instead: the call raises ZeroDivisionError exactly when
\* a requirement with target 0 has a matching result, and no other error.
RaisesOnZeroTarget ==
    call.fn = "analyze_compliance" =>
        /\ ret.raised <=>
               \E i \in 1..Len(call.requirements) :
                   /\ call.requirements[i].target[1] = 0
                   /\ Matching(call.requirements[i], call.results) # <<>>
        /\ ret.raised => ret.exception = "ZeroDivisionError"

====
